---- MODULE Spec2Model ----
(***************************************************************************)
(* Model of src/services/sheetService.ts: the CSV tokenizer, the column    *)
(* type inferencer, the value normalizer and the image URL transformer;    *)
(* of App.loadData, which holds the Dataset they produce; and of the send  *)
(* handler of components/ChatAssistant.tsx.                                *)
(*                                                                         *)
(* A JavaScript string is a sequence of characters; a character is a       *)
(* one-character TLA+ string.  Characters outside ASCII are named by their *)
(* code point ("U+0E3F" is the baht sign).                                 *)
(***************************************************************************)
EXTENDS Integers, Sequences, FiniteSets

VARIABLES
    scan,      \* parseCSVLine: the scanner's locals and its return value
    infer,     \* detectColumnType: arguments and return value
    xform,     \* transformImageUrl: argument and return value
    sheet,     \* fetchSheetData: the response and the settled promise
    app,       \* App: the component's state (data, loading, error)
    dateImpl,  \* how the host's Date parser treats non-standard strings
    chat       \* ChatAssistant: the component's state (messages, input, loading)

vars == <<scan, infer, xform, sheet, app, dateImpl, chat>>

----------------------------------------------------------------------------
(* Characters and string helpers (String.prototype methods).               *)

Lower == {"a","b","c","d","e","f","g","h","i","j","k","l","m",
          "n","o","p","q","r","s","t","u","v","w","x","y","z"}
Upper == {"A","B","C","D","E","F","G","H","I","J","K","L","M",
          "N","O","P","Q","R","S","T","U","V","W","X","Y","Z"}
Digits == {"0","1","2","3","4","5","6","7","8","9"}

\* White space removed by String.prototype.trim ("U+00A0" is the no-break space).
WhiteSpace == {" ", "\t", "\n", "\r", "U+00A0"}

QUOTE == "\""
COMMA == ","
NEWLINE == "\n"
BAHT == "U+0E3F"

\* The characters of the class [-\w].
IsIdChar(c) == c \in Lower \cup Upper \cup Digits \cup {"_", "-"}

\* Case folding of a regular expression with the i flag (ASCII letters only).
ToLowerChar(c) ==
    CASE c = "A" -> "a" [] c = "B" -> "b" [] c = "C" -> "c" [] c = "D" -> "d"
      [] c = "E" -> "e" [] c = "F" -> "f" [] c = "G" -> "g" [] c = "H" -> "h"
      [] c = "I" -> "i" [] c = "J" -> "j" [] c = "K" -> "k" [] c = "L" -> "l"
      [] c = "M" -> "m" [] c = "N" -> "n" [] c = "O" -> "o" [] c = "P" -> "p"
      [] c = "Q" -> "q" [] c = "R" -> "r" [] c = "S" -> "s" [] c = "T" -> "t"
      [] c = "U" -> "u" [] c = "V" -> "v" [] c = "W" -> "w" [] c = "X" -> "x"
      [] c = "Y" -> "y" [] c = "Z" -> "z" [] OTHER -> c

ToLower(s) == [k \in 1..Len(s) |-> ToLowerChar(s[k])]

\* s.slice(from - 1): the characters of s from position from on.
Drop(s, from) == SubSeq(s, from, Len(s))

\* The pattern p occurs in s at position k (1-based).
MatchAt(s, p, k) ==
    /\ k >= 1
    /\ k + Len(p) - 1 <= Len(s)
    /\ \A j \in 1..Len(p) : s[k + j - 1] = p[j]

\* String.prototype.includes
Includes(s, p) == \E k \in 1..(Len(s) + 1) : MatchAt(s, p, k)

\* String.prototype.startsWith / endsWith
StartsWith(s, p) == MatchAt(s, p, 1)
EndsWith(s, p) == MatchAt(s, p, Len(s) - Len(p) + 1)

\* RegExp.prototype.test of a literal pattern with the i flag.
TestI(s, p) == Includes(ToLower(s), ToLower(p))

\* Position of the first / last character of s that is not white space.
FirstNonWs(s) ==
    IF \E k \in 1..Len(s) : s[k] \notin WhiteSpace
    THEN CHOOSE k \in 1..Len(s) :
            /\ s[k] \notin WhiteSpace
            /\ \A j \in 1..(k - 1) : s[j] \in WhiteSpace
    ELSE Len(s) + 1

LastNonWs(s) ==
    IF \E k \in 1..Len(s) : s[k] \notin WhiteSpace
    THEN CHOOSE k \in 1..Len(s) :
            /\ s[k] \notin WhiteSpace
            /\ \A j \in (k + 1)..Len(s) : s[j] \in WhiteSpace
    ELSE 0

\* String.prototype.trim
Trim(s) == SubSeq(s, FirstNonWs(s), LastNonWs(s))

\* s.replace(/<any character of cs>/g, '')
RemoveChars(s, cs) == SelectSeq(s, LAMBDA c : c \notin cs)

\* Array.prototype.join with a one-character separator.
RECURSIVE Join(_, _)
Join(parts, sep) ==
    IF Len(parts) = 0 THEN <<>>
    ELSE IF Len(parts) = 1 THEN parts[1]
    ELSE parts[1] \o <<sep>> \o Join(Tail(parts), sep)

\* The pieces of s between the characters of cs, empty pieces kept: the k-th
\* piece lies between the (k-1)-th and the k-th separator of s.
SplitOn(s, cs) ==
    LET marks == {0, Len(s) + 1} \cup {k \in 1..Len(s) : s[k] \in cs}
        mark(k) == CHOOSE m \in marks : Cardinality({q \in marks : q < m}) = k - 1
    IN  [k \in 1..(Cardinality(marks) - 1) |-> SubSeq(s, mark(k) + 1, mark(k + 1) - 1)]

\* text.split('\n')
SplitLines(text) == SplitOn(text, {NEWLINE})

\* s.split(/[cs]+/): a run of separators is one boundary, so an empty piece
\* can only be the first or the last one.
SplitRuns(s, cs) ==
    LET raw == SplitOn(s, cs)
        n == Len(raw)
        kept == SelectSeq([k \in 1..n |-> [i |-> k, p |-> raw[k]]],
                          LAMBDA e : e.p # <<>> \/ e.i = 1 \/ e.i = n)
    IN  [k \in 1..Len(kept) |-> kept[k].p]

----------------------------------------------------------------------------
(* parseCSVLine                                                            *)

\* The scanner's locals before the loop (i is 1-based here, 0-based in the code).
ScanStart == [i |-> 1, current |-> <<>>, inQuote |-> FALSE, result |-> <<>>]

\* ScanStep without the escaped-quote case: every quote toggles inQuote.
ScanStep_noEscape(text, s) ==
    LET char == text[s.i] IN
    IF char = QUOTE
    THEN [s EXCEPT !.inQuote = ~@, !.i = @ + 1]
    ELSE IF char = COMMA /\ ~s.inQuote
         THEN [s EXCEPT !.result = Append(@, s.current),
                        !.current = <<>>, !.i = @ + 1]
         ELSE [s EXCEPT !.current = Append(@, char), !.i = @ + 1]

\* ScanStep with a comma ending the field inside a quoted section too.
ScanStep_commaAlways(text, s) ==
    LET char == text[s.i] IN
    IF char = QUOTE
    THEN IF s.inQuote /\ s.i + 1 <= Len(text) /\ text[s.i + 1] = QUOTE
         THEN [s EXCEPT !.current = Append(@, QUOTE), !.i = @ + 2]
         ELSE [s EXCEPT !.inQuote = ~@, !.i = @ + 1]
    ELSE IF char = COMMA
         THEN [s EXCEPT !.result = Append(@, s.current),
                        !.current = <<>>, !.i = @ + 1]
         ELSE [s EXCEPT !.current = Append(@, char), !.i = @ + 1]

\* One iteration of the for loop, the i++ of the loop header included.
ScanStep(text, s) ==
    LET char == text[s.i] IN
    IF char = QUOTE
    THEN IF s.inQuote /\ s.i + 1 <= Len(text) /\ text[s.i + 1] = QUOTE
         THEN [s EXCEPT !.current = Append(@, QUOTE), !.i = @ + 2]
         ELSE [s EXCEPT !.inQuote = ~@, !.i = @ + 1]
    ELSE IF char = COMMA /\ ~s.inQuote
         THEN [s EXCEPT !.result = Append(@, s.current),
                        !.current = <<>>, !.i = @ + 1]
         ELSE [s EXCEPT !.current = Append(@, char), !.i = @ + 1]

\* ScanFinish without the final trim.
ScanFinish_noTrim(s) == Append(s.result, s.current)

\* result.push(current); return result.map(s => s.trim())
ScanFinish(s) ==
    LET all == Append(s.result, s.current)
    IN  [k \in 1..Len(all) |-> Trim(all[k])]

\* The for loop run until i passes last. A long stretch is run as two
\* halves, which is the same sequence of iterations.
RECURSIVE ScanLoop(_, _, _)
ScanLoop(text, s, last) ==
    IF s.i > last THEN s
    ELSE IF last - s.i < 8 THEN ScanLoop(text, ScanStep(text, s), last)
    ELSE ScanLoop(text, ScanLoop(text, s, s.i + (last - s.i) \div 2), last)

parseCSVLine(text) == ScanFinish(ScanLoop(text, ScanStart, Len(text)))

----------------------------------------------------------------------------
(* transformImageUrl                                                       *)

MinIdLen == 25

s_drive == <<"d", "r", "i", "v", "e", ".", "g", "o", "o", "g", "l", "e", ".", "c", "o", "m">>
s_thumb == <<"h", "t", "t", "p", "s", ":", "/", "/", "d", "r", "i", "v", "e", ".", "g", "o", "o", "g", "l", "e", ".", "c", "o", "m", "/", "t", "h", "u", "m", "b", "n", "a", "i", "l", "?", "i", "d", "=">>
s_size == <<"&", "s", "z", "=", "w", "1", "0", "0", "0">>
s_slash_d == <<"/", "d", "/">>
s_id_eq == <<"i", "d", "=">>

\* Length of the run of [-\w] characters of s that starts at position k.
RunLen(s, k) ==
    LET stop == CHOOSE j \in k..(Len(s) + 1) :
                    /\ (j = Len(s) + 1 \/ ~IsIdChar(s[j]))
                    /\ \A m \in k..(j - 1) : IsIdChar(s[m])
    IN  stop - k

\* Capture group 1 of s.match(/<p>([-\w]{25,})/): the leftmost place where p is
\* followed by at least MinIdLen id characters, and the whole run there (the
\* quantifier is greedy); <<>> stands for null. With p empty this is match [0]
\* of /[-\w]{25,}/.
MatchId(s, p) ==
    LET hits == {k \in 1..(Len(s) + 1) :
                    MatchAt(s, p, k) /\ RunLen(s, k + Len(p)) >= MinIdLen}
    IN  IF hits = {} THEN <<>>
        ELSE LET k == CHOOSE h \in hits : \A g \in hits : h <= g
             IN  SubSeq(s, k + Len(p), k + Len(p) + RunLen(s, k + Len(p)) - 1)

\* Thumbnail with the size joined to the identifier by an underscore.
Thumbnail_sizeInId(id) == s_thumb \o id \o <<"_", "w", "1", "0", "0", "0">>

Thumbnail(id) == s_thumb \o id \o s_size

\* transformImageUrl with the two strict patterns tried in the other order.
transformImageUrl_idFirst(url) ==
    IF url = <<>> THEN <<>>
    ELSE LET newUrl == Trim(url) IN
         IF Includes(newUrl, s_drive)
         THEN LET strict == IF MatchId(newUrl, s_id_eq) # <<>>
                            THEN MatchId(newUrl, s_id_eq)
                            ELSE MatchId(newUrl, s_slash_d)
                  loose == MatchId(newUrl, <<>>)
              IN  IF strict # <<>> THEN Thumbnail(strict)
                  ELSE IF loose # <<>> THEN Thumbnail(loose)
                  ELSE newUrl
         ELSE newUrl

\* transformImageUrl without the loose match of lines 49-52.
transformImageUrl_noLoose(url) ==
    IF url = <<>> THEN <<>>
    ELSE LET newUrl == Trim(url) IN
         IF Includes(newUrl, s_drive)
         THEN LET strict == IF MatchId(newUrl, s_slash_d) # <<>>
                            THEN MatchId(newUrl, s_slash_d)
                            ELSE MatchId(newUrl, s_id_eq)
              IN  IF strict # <<>> THEN Thumbnail(strict)
                  ELSE newUrl
         ELSE newUrl

\* transformImageUrl returning its argument as given when it rewrites nothing.
transformImageUrl_noTrim(url) ==
    IF url = <<>> THEN <<>>
    ELSE LET newUrl == Trim(url) IN
         IF Includes(newUrl, s_drive)
         THEN LET strict == IF MatchId(newUrl, s_slash_d) # <<>>
                            THEN MatchId(newUrl, s_slash_d)
                            ELSE MatchId(newUrl, s_id_eq)
                  loose == MatchId(newUrl, <<>>)
              IN  IF strict # <<>> THEN Thumbnail(strict)
                  ELSE IF loose # <<>> THEN Thumbnail(loose)
                  ELSE url
         ELSE url

transformImageUrl(url) ==
    IF url = <<>> THEN <<>>
    ELSE LET newUrl == Trim(url) IN
         IF Includes(newUrl, s_drive)
         THEN LET strict == IF MatchId(newUrl, s_slash_d) # <<>>
                            THEN MatchId(newUrl, s_slash_d)
                            ELSE MatchId(newUrl, s_id_eq)
                  loose == MatchId(newUrl, <<>>)
              IN  IF strict # <<>> THEN Thumbnail(strict)
                  ELSE IF loose # <<>> THEN Thumbnail(loose)
                  ELSE newUrl
         ELSE newUrl

----------------------------------------------------------------------------
(* Numbers: parseFloat, Number, isFinite.                                  *)
(* A number is NaN, an infinity, or neg * mant * 10^exp with mant not a    *)
(* multiple of 10 (mant = 0 has exp = 0 and no sign): two decimal literals *)
(* of the same value have the same representation.                         *)

NaN == [k |-> "NaN", neg |-> FALSE, mant |-> 0, exp |-> 0]
Infinite(neg) == [k |-> "Infinity", neg |-> neg, mant |-> 0, exp |-> 0]

RECURSIVE Normal(_, _, _)
Normal(neg, mant, exp) ==
    IF mant = 0 THEN [k |-> "num", neg |-> FALSE, mant |-> 0, exp |-> 0]
    ELSE IF mant % 10 = 0 THEN Normal(neg, mant \div 10, exp + 1)
    ELSE [k |-> "num", neg |-> neg, mant |-> mant, exp |-> exp]

Zero == Normal(FALSE, 0, 0)

\* Largest decimal exponent of a finite double (Number.MAX_VALUE is
\* 1.79e308); a literal with more integer digits than this is an infinity.
MaxDecimalDigits == 309

DigitValue(c) ==
    CASE c = "0" -> 0 [] c = "1" -> 1 [] c = "2" -> 2 [] c = "3" -> 3
      [] c = "4" -> 4 [] c = "5" -> 5 [] c = "6" -> 6 [] c = "7" -> 7
      [] c = "8" -> 8 [] c = "9" -> 9

\* Length of the run of decimal digits of s that starts at position k.
DigitRun(s, k) ==
    LET stop == CHOOSE j \in k..(Len(s) + 1) :
                    /\ (j = Len(s) + 1 \/ s[j] \notin Digits)
                    /\ \A m \in k..(j - 1) : s[m] \in Digits
    IN  stop - k

\* The value of the digits s[from .. from + n - 1] appended to acc.
RECURSIVE DigitsValue(_, _, _, _)
DigitsValue(s, from, n, acc) ==
    IF n = 0 THEN acc
    ELSE DigitsValue(s, from + 1, n - 1, acc * 10 + DigitValue(s[from]))

NumDigits(mant) ==
    CHOOSE d \in 1..10 : (d = 10 \/ mant < 10 ^ d) /\ (d = 1 \/ mant >= 10 ^ (d - 1))

s_Infinity == <<"I", "n", "f", "i", "n", "i", "t", "y">>

\* The value of a decimal literal: the digits mant (fraction digits included),
\* frac fraction digits and the exponent e.
DecimalValue(neg, mant, frac, e) ==
    IF mant # 0 /\ NumDigits(Normal(neg, mant, e - frac).mant)
                       + Normal(neg, mant, e - frac).exp > MaxDecimalDigits
    THEN Infinite(neg)
    ELSE Normal(neg, mant, e - frac)

\* The ExponentPart that may follow a mantissa ending before position p3: it
\* counts only with at least one digit (n3, starting at q).
WithExponent(s, neg, mant, frac, p3, q, n3) ==
    IF n3 = 0 THEN [len |-> p3 - 1, value |-> DecimalValue(neg, mant, frac, 0)]
    ELSE [len |-> q + n3 - 1,
          value |-> DecimalValue(neg, mant, frac,
                        IF s[q - 1] = "-" THEN 0 - DigitsValue(s, q, n3, 0)
                        ELSE DigitsValue(s, q, n3, 0))]

AfterMantissa(s, neg, mant, frac, p3, q) ==
    IF p3 <= Len(s) /\ s[p3] \in {"e", "E"}
    THEN WithExponent(s, neg, mant, frac, p3, q, DigitRun(s, q))
    ELSE WithExponent(s, neg, mant, frac, p3, q, 0)

\* The mantissa starts at p with n1 integer digits and, after a dot, n2
\* fraction digits: "1." and ".5" are literals, "." is not.
Mantissa(s, neg, p, n1, n2, p3) ==
    IF n1 + n2 = 0 THEN [len |-> 0, value |-> NaN]
    ELSE AfterMantissa(s, neg,
            DigitsValue(s, p + n1 + 1, n2, DigitsValue(s, p, n1, 0)), n2, p3,
            IF p3 + 1 <= Len(s) /\ s[p3 + 1] \in {"+", "-"} THEN p3 + 2 ELSE p3 + 1)

Unsigned(s, neg, p, n1) ==
    IF p + n1 <= Len(s) /\ s[p + n1] = "."
    THEN Mantissa(s, neg, p, n1, DigitRun(s, p + n1 + 1),
                  p + n1 + 1 + DigitRun(s, p + n1 + 1))
    ELSE Mantissa(s, neg, p, n1, 0, p + n1)

\* The longest prefix of s that is a StrDecimalLiteral, as [len, value];
\* len = 0 and value = NaN when no prefix is one.
DecimalPrefix(s) ==
    LET neg == Len(s) >= 1 /\ s[1] = "-"
        p == IF Len(s) >= 1 /\ s[1] \in {"+", "-"} THEN 2 ELSE 1
    IN  IF MatchAt(s, s_Infinity, p)
        THEN [len |-> p + Len(s_Infinity) - 1, value |-> Infinite(neg)]
        ELSE Unsigned(s, neg, p, DigitRun(s, p))

\* parseFloat(s): leading white space is skipped, trailing garbage ignored.
parseFloat(s) == DecimalPrefix(Drop(s, FirstNonWs(s))).value

isNaN(n) == n.k = "NaN"

HexDigits == Digits \cup {"a","b","c","d","e","f","A","B","C","D","E","F"}

\* A NonDecimalIntegerLiteral: 0x, 0o or 0b and at least one digit of the base.
IsNonDecimalLiteral(t) ==
    /\ Len(t) >= 3
    /\ t[1] = "0"
    /\ \/ t[2] \in {"x", "X"} /\ \A k \in 3..Len(t) : t[k] \in HexDigits
       \/ t[2] \in {"o", "O"} /\ \A k \in 3..Len(t) : t[k] \in {"0","1","2","3","4","5","6","7"}
       \/ t[2] \in {"b", "B"} /\ \A k \in 3..Len(t) : t[k] \in {"0","1"}

\* isFinite(Number(s)): the whole trimmed string is a numeric literal (the
\* empty string converts to 0) and its value is finite.
isFiniteNumber(s) ==
    LET t == Trim(s)
        d == DecimalPrefix(t)
    IN  \/ t = <<>>
        \/ IsNonDecimalLiteral(t)
        \/ d.len = Len(t) /\ d.value.k = "num"


----------------------------------------------------------------------------
(* new Date(v)                                                             *)

DaysIn(month) == IF month = 2 THEN 28
                 ELSE IF month \in {4, 6, 9, 11} THEN 30 ELSE 31

\* v has the date-only form YYYY-MM-DD of the ECMAScript date time string
\* format, with a month and a day that every calendar year has.
IsIsoDate(v) ==
    /\ Len(v) = 10
    /\ \A k \in {1, 2, 3, 4, 6, 7, 9, 10} : v[k] \in Digits
    /\ v[5] = "-" /\ v[8] = "-"
    /\ DigitsValue(v, 6, 2, 0) \in 1..12
    /\ DigitsValue(v, 9, 2, 0) \in 1..DaysIn(DigitsValue(v, 6, 2, 0))

\* !isNaN(new Date(v).getTime()). A string in the standard format parses on
\* every host and a string without any digit on none; for every other string
\* Date.parse falls back to implementation-specific formats, and the host
\* (dateImpl) decides.
IsValidDate(v) ==
    \/ IsIsoDate(v)
    \/ /\ \E k \in 1..Len(v) : v[k] \in Digits
       /\ dateImpl = "lenient"

----------------------------------------------------------------------------
(* detectColumnType                                                        *)

s_image == <<"i", "m", "a", "g", "e">>
s_photo == <<"p", "h", "o", "t", "o">>
s_picture == <<"p", "i", "c", "t", "u", "r", "e">>
s_img == <<"i", "m", "g">>
s_th_roop == <<"U+0E23", "U+0E39", "U+0E1B">>
s_th_phap == <<"U+0E20", "U+0E32", "U+0E1E">>
s_th_saphap == <<"U+0E2A", "U+0E20", "U+0E32", "U+0E1E">>
s_condition == <<"c", "o", "n", "d", "i", "t", "i", "o", "n">>
s_status == <<"s", "t", "a", "t", "u", "s">>
s_th_sathana == <<"U+0E2A", "U+0E16", "U+0E32", "U+0E19", "U+0E30">>
s_url == <<"u", "r", "l">>
s_link == <<"l", "i", "n", "k">>
s_http == <<"h", "t", "t", "p">>
s_www == <<"w", "w", "w">>
s_googleusercontent == <<"g", "o", "o", "g", "l", "e", "u", "s", "e", "r", "c", "o", "n", "t", "e", "n", "t", ".", "c", "o", "m">>
s_imgur == <<"i", "m", "g", "u", "r", ".", "c", "o", "m">>
s_ibb == <<"i", "b", "b", ".", "c", "o">>
s_photos_app == <<"p", "h", "o", "t", "o", "s", ".", "a", "p", "p", ".", "g", "o", "o", ".", "g", "l">>

\* /\.(jpeg|jpg|gif|png|webp|bmp|svg)$/i
ImageExtensions == {<<".", "j", "p", "e", "g">>, <<".", "j", "p", "g">>,
                    <<".", "g", "i", "f">>, <<".", "p", "n", "g">>,
                    <<".", "w", "e", "b", "p">>, <<".", "b", "m", "p">>,
                    <<".", "s", "v", "g">>}

ImageHosts == {s_drive, s_googleusercontent, s_imgur, s_ibb, s_photos_app}

\* /image|photo|picture|img|<roop>/i.test(headerName)
IsImageHeader(h) == \E w \in {s_image, s_photo, s_picture, s_img, s_th_roop} : TestI(h, w)

\* IsThaiImageHeader without its guard against the word for "condition".
IsThaiImageHeader_unguarded(h) == TestI(h, s_th_phap)

\* /<phap>/i.test(headerName) && !/<saphap>/i.test(headerName)
IsThaiImageHeader(h) == TestI(h, s_th_phap) /\ ~TestI(h, s_th_saphap)

\* IsConditionHeader with the English "status" left out of the pattern.
IsConditionHeader_noStatus(h) ==
    \E w \in {s_condition, s_th_saphap, s_th_sathana} : TestI(h, w)

\* /condition|status|<saphap>|<sathana>/i.test(headerName)
IsConditionHeader(h) ==
    \E w \in {s_condition, s_status, s_th_saphap, s_th_sathana} : TestI(h, w)

\* IsLinkHeader without the word link.
IsLinkHeader_urlOnly(h) == TestI(h, s_url)

\* /url|link/i.test(headerName)
IsLinkHeader(h) == TestI(h, s_url) \/ TestI(h, s_link)

\* The predicate of values.some(...) under the url/link header rule.
HasUrlText(v) ==
    LET s == Trim(v)
    IN  Includes(s, s_http) \/ Includes(s, s_www) \/ Includes(s, s_drive)

\* The predicate of the imageCount filter.
LooksLikeImage(v) ==
    LET s == Trim(v)
    IN  /\ StartsWith(s, s_http) \/ StartsWith(s, s_www)
        /\ \/ \E x \in ImageExtensions : EndsWith(ToLower(s), x)
           \/ \E d \in ImageHosts : Includes(s, d)

\* String(v).replace(/,/g, '').replace(/[<baht>$]/g, '')
StripNumber(v) == RemoveChars(RemoveChars(v, {COMMA}), {BAHT, "$"})

\* The predicate of cleanValues.every(...), on the cleaned and trimmed value.
LooksLikeNumber(v) ==
    LET c == Trim(StripNumber(v))
    IN  ~isNaN(parseFloat(c)) /\ isFiniteNumber(c)

\* The predicate of the isDate check.
LooksLikeDate(v) ==
    /\ IsValidDate(v)
    /\ Len(v) > 4
    /\ (Includes(v, <<"/">>) \/ Includes(v, <<"-">>))

\* detectColumnType with the condition/status rule tried before the image
\* header rules.
detectColumnType_conditionFirst(values, headerName) ==
    LET nonEmpty == SelectSeq(values, LAMBDA v : v # <<>>)
        imageCount == Len(SelectSeq(nonEmpty, LooksLikeImage))
        hasDriveLinks == \E k \in 1..Len(nonEmpty) : Includes(nonEmpty[k], s_drive)
    IN  IF IsConditionHeader(headerName) THEN "string"
        ELSE IF IsImageHeader(headerName) THEN "image"
        ELSE IF IsThaiImageHeader(headerName) THEN "image"
        ELSE IF IsLinkHeader(headerName)
                /\ \E k \in 1..Len(values) : HasUrlText(values[k]) THEN "image"
        ELSE IF Len(nonEmpty) = 0 THEN "string"
        ELSE IF hasDriveLinks /\ imageCount > 0 THEN "image"
        \* imageCount / nonEmpty.length >= 0.2
        ELSE IF imageCount > 0 /\ imageCount * 5 >= Len(nonEmpty) THEN "image"
        ELSE IF \A k \in 1..Len(nonEmpty) : LooksLikeNumber(nonEmpty[k]) THEN "number"
        ELSE IF \A k \in 1..Len(nonEmpty) : LooksLikeDate(nonEmpty[k]) THEN "date"
        ELSE "string"

\* detectColumnType with the share of image values taken over the whole
\* sample, blank values included.
detectColumnType_ratioOverAll(values, headerName) ==
    LET nonEmpty == SelectSeq(values, LAMBDA v : v # <<>>)
        imageCount == Len(SelectSeq(nonEmpty, LooksLikeImage))
        hasDriveLinks == \E k \in 1..Len(nonEmpty) : Includes(nonEmpty[k], s_drive)
    IN  IF IsImageHeader(headerName) THEN "image"
        ELSE IF IsThaiImageHeader(headerName) THEN "image"
        ELSE IF IsConditionHeader(headerName) THEN "string"
        ELSE IF IsLinkHeader(headerName)
                /\ \E k \in 1..Len(values) : HasUrlText(values[k]) THEN "image"
        ELSE IF Len(nonEmpty) = 0 THEN "string"
        ELSE IF hasDriveLinks /\ imageCount > 0 THEN "image"
        \* imageCount / nonEmpty.length >= 0.2
        ELSE IF imageCount > 0 /\ imageCount * 5 >= Len(values) THEN "image"
        ELSE IF \A k \in 1..Len(nonEmpty) : LooksLikeNumber(nonEmpty[k]) THEN "number"
        ELSE IF \A k \in 1..Len(nonEmpty) : LooksLikeDate(nonEmpty[k]) THEN "date"
        ELSE "string"

\* detectColumnType with the date check made before the number check.
detectColumnType_dateFirst(values, headerName) ==
    LET nonEmpty == SelectSeq(values, LAMBDA v : v # <<>>)
        imageCount == Len(SelectSeq(nonEmpty, LooksLikeImage))
        hasDriveLinks == \E k \in 1..Len(nonEmpty) : Includes(nonEmpty[k], s_drive)
    IN  IF IsImageHeader(headerName) THEN "image"
        ELSE IF IsThaiImageHeader(headerName) THEN "image"
        ELSE IF IsConditionHeader(headerName) THEN "string"
        ELSE IF IsLinkHeader(headerName)
                /\ \E k \in 1..Len(values) : HasUrlText(values[k]) THEN "image"
        ELSE IF Len(nonEmpty) = 0 THEN "string"
        ELSE IF hasDriveLinks /\ imageCount > 0 THEN "image"
        \* imageCount / nonEmpty.length >= 0.2
        ELSE IF imageCount > 0 /\ imageCount * 5 >= Len(nonEmpty) THEN "image"
        ELSE IF \A k \in 1..Len(nonEmpty) : LooksLikeDate(nonEmpty[k]) THEN "date"
        ELSE IF \A k \in 1..Len(nonEmpty) : LooksLikeNumber(nonEmpty[k]) THEN "number"
        ELSE "string"

\* detectColumnType without the return for a sample without values.
detectColumnType_noBlankDefault(values, headerName) ==
    LET nonEmpty == SelectSeq(values, LAMBDA v : v # <<>>)
        imageCount == Len(SelectSeq(nonEmpty, LooksLikeImage))
        hasDriveLinks == \E k \in 1..Len(nonEmpty) : Includes(nonEmpty[k], s_drive)
    IN  IF IsImageHeader(headerName) THEN "image"
        ELSE IF IsThaiImageHeader(headerName) THEN "image"
        ELSE IF IsConditionHeader(headerName) THEN "string"
        ELSE IF IsLinkHeader(headerName)
                /\ \E k \in 1..Len(values) : HasUrlText(values[k]) THEN "image"
        ELSE IF hasDriveLinks /\ imageCount > 0 THEN "image"
        \* imageCount / nonEmpty.length >= 0.2
        ELSE IF imageCount > 0 /\ imageCount * 5 >= Len(nonEmpty) THEN "image"
        ELSE IF \A k \in 1..Len(nonEmpty) : LooksLikeNumber(nonEmpty[k]) THEN "number"
        ELSE IF \A k \in 1..Len(nonEmpty) : LooksLikeDate(nonEmpty[k]) THEN "date"
        ELSE "string"

\* values are the sampled cells (strings); headerName is the column's header.
detectColumnType(values, headerName) ==
    LET nonEmpty == SelectSeq(values, LAMBDA v : v # <<>>)
        imageCount == Len(SelectSeq(nonEmpty, LooksLikeImage))
        hasDriveLinks == \E k \in 1..Len(nonEmpty) : Includes(nonEmpty[k], s_drive)
    IN  IF IsImageHeader(headerName) THEN "image"
        ELSE IF IsThaiImageHeader(headerName) THEN "image"
        ELSE IF IsConditionHeader(headerName) THEN "string"
        ELSE IF IsLinkHeader(headerName)
                /\ \E k \in 1..Len(values) : HasUrlText(values[k]) THEN "image"
        ELSE IF Len(nonEmpty) = 0 THEN "string"
        ELSE IF hasDriveLinks /\ imageCount > 0 THEN "image"
        \* imageCount / nonEmpty.length >= 0.2
        ELSE IF imageCount > 0 /\ imageCount * 5 >= Len(nonEmpty) THEN "image"
        ELSE IF \A k \in 1..Len(nonEmpty) : LooksLikeNumber(nonEmpty[k]) THEN "number"
        ELSE IF \A k \in 1..Len(nonEmpty) : LooksLikeDate(nonEmpty[k]) THEN "date"
        ELSE "string"


----------------------------------------------------------------------------
(* fetchSheetData                                                          *)

SampleSize == 20

\* A cell of a returned row is a string or a number.
Str(s) == [t |-> "string", s |-> s, n |-> NaN]
Num(n) == [t |-> "number", s |-> <<>>, n |-> n]

EmptyDataset == [columns |-> <<>>, rows |-> <<>>]

\* h.replace(/^"|"$/g, ''): a quote at the start and a quote at the end of
\* what follows it are removed.
StripEdgeQuotes(h) ==
    LET a == IF Len(h) > 0 /\ h[1] = QUOTE THEN Tail(h) ELSE h
    IN  IF Len(a) > 0 /\ a[Len(a)] = QUOTE THEN SubSeq(a, 1, Len(a) - 1) ELSE a

\* The value stored at row[header] for the field values[index] (index is
\* 1-based here): a missing or empty field gives '', a field that starts and
\* ends with a quote loses its first and last character (val.slice(1, -1)).
CellOf(values, index) ==
    IF index > Len(values) \/ values[index] = <<>> THEN <<>>
    ELSE LET val == values[index]
         IN  IF val[1] = QUOTE /\ val[Len(val)] = QUOTE
             THEN SubSeq(val, 2, Len(val) - 1)
             ELSE val

\* The one property name that row[header] = ... does not create: on the
\* object literal {} the name __proto__ is the accessor inherited from
\* Object.prototype, and its setter ignores a string.
ProtoKey == <<"_", "_", "p", "r", "o", "t", "o", "_", "_">>

\* String(Object.prototype), what row['__proto__'] reads as.
s_object == <<"[", "o", "b", "j", "e", "c", "t", " ", "O", "b", "j", "e", "c", "t", "]">>

\* The object built by headers.forEach for one line: one key per distinct
\* header, and a header that occurs twice keeps the later assignment.
RawRow(headers, line) ==
    LET values == parseCSVLine(line)
        last(name) == CHOOSE i \in 1..Len(headers) :
                          /\ headers[i] = name
                          /\ \A j \in (i + 1)..Len(headers) : headers[j] # name
    IN  [name \in {headers[i] : i \in 1..Len(headers)} \ {ProtoKey} |->
            CellOf(values, last(name))]

\* r[header], as the string detectColumnType makes of it with String(v).
RawGet(r, header) == IF header \in DOMAIN r THEN r[header] ELSE s_object

\* IsBlankLine without the trim: only the empty line makes no row.
IsBlankLine_noTrim(line) == line = <<>>

\* A line makes no row when nothing is left of it after trim.
IsBlankLine(line) == Trim(line) = <<>>

\* RawRows that also drops a line with fewer fields than there are headers.
RawRows_skipShort(headers, lines) ==
    LET data == SelectSeq(Tail(lines),
                    LAMBDA l : ~IsBlankLine(l) /\ Len(parseCSVLine(l)) >= Len(headers))
    IN  [k \in 1..Len(data) |-> RawRow(headers, data[k])]

\* lines.slice(1).map(...).filter(r => r !== null)
RawRows(headers, lines) ==
    LET data == SelectSeq(Tail(lines), LAMBDA l : ~IsBlankLine(l))
    IN  [k \in 1..Len(data) |-> RawRow(headers, data[k])]

\* SampleValues without the slice: every row is sampled.
SampleValues_allRows(rawRows, header) ==
    [k \in 1..Len(rawRows) |-> RawGet(rawRows[k], header)]

\* rawRows.slice(0, 20).map(r => r[header])
SampleValues(rawRows, header) ==
    LET n == IF Len(rawRows) < SampleSize THEN Len(rawRows) ELSE SampleSize
    IN  [k \in 1..n |-> RawGet(rawRows[k], header)]

Columns(headers, rawRows) ==
    [i \in 1..Len(headers) |->
        [name |-> headers[i],
         type |-> detectColumnType(SampleValues(rawRows, headers[i]), headers[i])]]

\* NormalizeNumber without the stripping of commas and currency signs.
NormalizeNumber_noStrip(val) == IF val = <<>> THEN Zero ELSE parseFloat(val)

\* NormalizeNumber without the case of the empty string.
NormalizeNumber_noEmptyCase(val) == parseFloat(StripNumber(val))

\* The number stored for a string cell of a 'number' column.
NormalizeNumber(val) ==
    LET cleanVal == StripNumber(val)
    IN  IF cleanVal = <<>> THEN Zero ELSE parseFloat(cleanVal)

\* NormalizeImage without the rewrite of the parts by transformImageUrl.
NormalizeImage_noTransform(rawVal) ==
    IF rawVal = <<>> THEN <<>>
    ELSE LET split == SplitRuns(rawVal, {NEWLINE, COMMA})
             parts == SelectSeq([k \in 1..Len(split) |-> Trim(split[k])],
                                LAMBDA q : q # <<>>)
         IN  Join(parts, COMMA)

\* The string stored for a cell of an 'image' column.
NormalizeImage(rawVal) ==
    IF rawVal = <<>> THEN <<>>
    ELSE LET split == SplitRuns(rawVal, {NEWLINE, COMMA})
             parts == SelectSeq([k \in 1..Len(split) |-> Trim(split[k])],
                                LAMBDA q : q # <<>>)
             transformedParts ==
                 SelectSeq([k \in 1..Len(parts) |-> transformImageUrl(parts[k])],
                           LAMBDA q : q # <<>>)
         IN  Join(transformedParts, COMMA)

\* The body of columns.forEach for one column. A header that occurs twice is
\* visited twice: a number cell is converted once (typeof val === 'string'
\* fails the second time), an image cell is transformed again. Under the
\* name __proto__ the row has no cell: what is read is an object, not a
\* string, and what is assigned is ignored.
NormalizeCell(newRow, col) ==
    LET val == newRow[col.name] IN
    IF col.name \notin DOMAIN newRow THEN newRow
    ELSE IF col.type = "number"
    THEN IF val.t = "string"
         THEN [newRow EXCEPT ![col.name] = Num(NormalizeNumber(val.s))]
         ELSE newRow
    ELSE IF col.type = "image"
    \* columns of one name have one type, so the cell is still a string here
    THEN [newRow EXCEPT ![col.name] = Str(NormalizeImage(val.s))]
    ELSE newRow

RECURSIVE NormalizeFrom(_, _, _)
NormalizeFrom(newRow, columns, i) ==
    IF i > Len(columns) THEN newRow
    ELSE NormalizeFrom(NormalizeCell(newRow, columns[i]), columns, i + 1)

\* const newRow = { ...row }; columns.forEach(...); return newRow
NormalizeRow(row, columns) ==
    NormalizeFrom([name \in DOMAIN row |-> Str(row[name])], columns, 1)

\* rawHeaders.map(h => h.replace(/^"|"$/g, ''))
Headers(rawHeaders) == [i \in 1..Len(rawHeaders) |-> StripEdgeQuotes(rawHeaders[i])]

\* rawRows.map(row => ...)
Rows(rawRows, columns) == [k \in 1..Len(rawRows) |-> NormalizeRow(rawRows[k], columns)]

Locals(headers, rawRows, columns) ==
    [headers |-> headers, rawRows |-> rawRows, columns |-> columns,
     rows |-> Rows(rawRows, columns)]

LocalsOfRows(headers, rawRows) == Locals(headers, rawRows, Columns(headers, rawRows))

LocalsOfLines(headers, lines) == LocalsOfRows(headers, RawRows(headers, lines))

\* SheetLocals with the guard lines.length < 1.
SheetLocals_oneLine(lines) ==
    IF Len(lines) < 1 THEN Locals(<<>>, <<>>, <<>>)
    ELSE LocalsOfLines(Headers(parseCSVLine(lines[1])), lines)

\* The locals of fetchSheetData when it returns for the lines of the response
\* body: no header is read from fewer than 2 lines, and the Dataset is empty.
SheetLocals(lines) ==
    IF Len(lines) < 2 THEN Locals(<<>>, <<>>, <<>>)
    ELSE LocalsOfLines(Headers(parseCSVLine(lines[1])), lines)

\* The Dataset fetchSheetData resolves with for a response body text.
DatasetOf(loc) == [columns |-> loc.columns, rows |-> loc.rows]
Dataset(text) == DatasetOf(SheetLocals(SplitLines(text)))

----------------------------------------------------------------------------
(* Inputs                                                                  *)

\* All strings of at most n characters of cs.
AllStrings(cs, n) == UNION {[1..k -> cs] : k \in 0..n}

\* All sequences of at most n elements of S.
SeqsUpTo(S, n) == UNION {[1..k -> S] : k \in 0..n}

RECURSIVE Concat(_)
Concat(parts) == IF Len(parts) = 0 THEN <<>> ELSE Head(parts) \o Concat(Tail(parts))

\* n copies of x.
Rep(x, n) == [k \in 1..n |-> x]

\* Lines given to parseCSVLine: every short string over the characters the
\* scanner distinguishes, and some longer lines.
MaxLineLen == 5
ScanChars == {"a", "b", COMMA, QUOTE, " "}
ScanExamples == {
    <<"a", ",", QUOTE, "b", QUOTE, QUOTE, "c", QUOTE, ",", "d">>,
    <<QUOTE, "a", ",", "b", QUOTE, ",", "c">>,
    <<"a", ",", QUOTE, "b", ",", "c">>,
    <<" ", "a", " ", "b", " ">>,
    <<"\t", "a", " ", " ", "b", "\r">>,
    <<"U+00A0", "a", "b", "U+00A0", " ">>,
    <<"x", " ", QUOTE, QUOTE, " ", "y">> }
ScanLines == AllStrings(ScanChars, MaxLineLen) \cup ScanExamples

\* Headers given to detectColumnType: one or two words, with and without the
\* keywords of the header rules.
h_equipment == <<"U+0E2D", "U+0E38", "U+0E1B", "U+0E01", "U+0E23", "U+0E13", "U+0E4C">>
h_condition_th == s_th_saphap \o h_equipment
HeaderWords == {
    <<>>, <<"S", "t", "a", "t", "u", "s">>, <<"C", "O", "N", "D", "I", "T", "I", "O", "N">>, s_th_saphap, s_th_sathana,
    <<"I", "m", "g">>, s_th_roop, s_th_phap, <<"u", "r", "l">>, h_equipment }
DetectHeaders == {a \o b : a \in HeaderWords, b \in HeaderWords}

\* Sampled values given to detectColumnType.
v_png == <<"h", "t", "t", "p", ":", "/", "/", "a", ".", "p", "n", "g">>
v_png2 == <<"h", "t", "t", "p", ":", "/", "/", "b", ".", "p", "n", "g">>
v_drive == <<"h", "t", "t", "p", "s", ":", "/", "/", "d", "r", "i", "v", "e", ".", "g", "o", "o", "g", "l", "e", ".", "c", "o", "m", "/", "f", "i", "l", "e", "/", "d", "/", "A", "B", "C", "D", "E", "F", "G", "H", "I", "J", "K", "L", "M", "N", "O", "P", "Q", "R", "S", "T", "U", "V", "W", "X", "Y", "1", "2", "3", "4", "5", "6", "7", "/", "v", "i", "e", "w">>
v_money == <<"1", ",", "2", "3", "4", ".", "5", "0", " ", "U+0E3F">>
MaxSample == 2
DetectValues == {<<>>, <<"1", "2">>, <<"a", "b", "c">>, v_png, v_drive, <<"2", "0", "2", "4", "-", "0", "1", "-", "0", "2">>, <<"1", "/", "2", "/", "2", "0", "2", "4">>, v_money}
DetectSamples == SeqsUpTo(DetectValues, MaxSample)

\* Samples given to detectColumnType under a header without keyword or with
\* url or link: long samples of few values, for the share of image values,
\* and short samples of values that are numbers, dates, both or neither.
MaxRatio == 6
RatioValues == {<<>>, v_png, <<"1", "2">>, s_drive}
NumberValues == {<<>>, <<"1", "2">>, v_money, <<"-", "1", "2", "3", "4", "5">>, <<"1", "2", "a", "b", "c">>, <<" ">>,
                 <<"a", " ", "w", "w", "w">>, <<"2", "0", "2", "4", "-", "0", "1", "-", "0", "2">>}
ContentHeaders == {<<>>, <<"u", "r", "l">>, <<"L", "i", "n", "k">>}
RatioSamples == SeqsUpTo(RatioValues, MaxRatio)
NumberSamples == SeqsUpTo(NumberValues, MaxSample)

\* URLs given to transformImageUrl: a host, at most two places that look
\* like an identifier (a form and a run of id characters), and a tail.
IdSlack == 1
UrlHosts == {<<"h", "t", "t", "p", "s", ":", "/", "/", "d", "r", "i", "v", "e", ".", "g", "o", "o", "g", "l", "e", ".", "c", "o", "m">>, <<" ", "h", "t", "t", "p", "s", ":", "/", "/", "d", "r", "i", "v", "e", ".", "g", "o", "o", "g", "l", "e", ".", "c", "o", "m">>, <<"h", "t", "t", "p", "s", ":", "/", "/", "e", "x", "a", "m", "p", "l", "e", ".", "c", "o", "m">>}
UrlForms == {<<"/", "f", "i", "l", "e", "/", "d", "/">>, <<"/", "o", "p", "e", "n", "?", "i", "d", "=">>, <<"/", "u", "c", "?", "r", "e", "s", "i", "d", "=">>, <<"/", "f", "o", "l", "d", "e", "r", "s", "/">>}
UrlTails == {<<>>, <<"/", "v", "i", "e", "w">>, <<"?", "u", "s", "p", "=", "s", "h", "a", "r", "i", "n", "g", " ">>}
IdLetters == <<"A", "b", "-", "9", "_">>
\* A run of n id characters; k varies the characters.
IdRun(n, k) == [j \in 1..n |-> IdLetters[((j * k) % Len(IdLetters)) + 1]]
UrlIds == {IdRun(n, k) : n \in (MinIdLen - 1)..(MinIdLen + IdSlack), k \in 1..2}
NoPlace == [form |-> <<>>, id |-> <<>>]
UrlPlaces == {NoPlace} \cup [form : UrlForms, id : UrlIds]
UrlSources == [host : UrlHosts, first : UrlPlaces, second : UrlPlaces, tail : UrlTails]
UrlOf(src) ==
    src.host \o src.first.form \o src.first.id
             \o src.second.form \o src.second.id \o src.tail
\* Inputs that are not URLs.
UrlOthers == {<<>>, <<" ", " ">>, <<"a", "b", "c">>, <<" ", "w", "w", "w", ".", "x", ".", "c", "o", "m", "/", "a", ".", "p", "n", "g", " ">>}


\* Response bodies given to fetchSheetData: a header line and at most MaxRows
\* further lines.
MaxRows == 2
GridHeaders == {<<>>, <<"n">>, <<"i", "m", "g">>, <<"n", ",", "i", "m", "g">>, <<"s", "t", "a", "t", "u", "s", ",", "n">>, <<"n", ",", "n">>, <<QUOTE, "n", QUOTE, ",", "d">>,
                <<"n", ",">> \o ProtoKey}
GridLines == {
    <<>>, <<" ">>, <<"1", "2">>, <<"a", "b", "c", ",", "x">>, <<"$">>, <<QUOTE, "1", ",", "2", "3", "4", ".", "5", "0", " ", "U+0E3F", QUOTE>>, <<"2", "0", "2", "4", "-", "0", "1", "-", "0", "2", ",", "7">>,
    <<"1", "2", ",", "h", "t", "t", "p", ":", "/", "/", "a", ".", "p", "n", "g">>, <<QUOTE, "h", "t", "t", "p", ":", "/", "/", "a", ".", "p", "n", "g", ",", " ", "h", "t", "t", "p", ":", "/", "/", "b", ".", "p", "n", "g", QUOTE>>, <<QUOTE, "5", ",", "c">>,
    <<QUOTE, QUOTE, QUOTE, QUOTE>>, <<QUOTE, QUOTE, QUOTE, "a", QUOTE, QUOTE, QUOTE>> }
GridBlobs ==
    {Join(<<h>> \o rows, NEWLINE) : h \in GridHeaders, rows \in SeqsUpTo(GridLines, MaxRows)}

\* One quoted cell made of at most MaxPieces pieces, under a header of its own.
MaxPieces == 3
Quoted(cell) == <<QUOTE>> \o cell \o <<QUOTE>>
CellsOf(pieces) == {Concat(ps) : ps \in SeqsUpTo(pieces, MaxPieces)}
\* A Drive link as short as one can be.
v_link == s_drive \o s_slash_d \o IdRun(MinIdLen, 1)
ImagePieces == {<<COMMA>>, <<" ">>, <<NEWLINE>>, <<"x">>, v_png, v_png2, v_link}
ImageBlobs == {Join(<<s_img, Quoted(c)>>, NEWLINE) : c \in CellsOf(ImagePieces)}
NumberPieces == {<<COMMA>>, <<" ">>, <<BAHT>>, <<"$">>, <<"1">>, <<".", "5", "0">>, <<"-">>}
NumberBlobs == {Join(<<<<"n">>, Quoted(c)>>, NEWLINE) : c \in CellsOf(NumberPieces)}

\* Bodies with one data row whose img cell is a quoted field of two URLs with a
\* newline between them.
TwoUrlCell(first, u1, u2) ==
    first \o <<COMMA, QUOTE>> \o u1 \o <<NEWLINE>> \o u2 \o <<QUOTE>>
TwoUrlFirsts == {<<"7">>, <<"a", "b", "c">>}
TwoUrls == {v_png, v_png2, v_link}
MultiLineBlobs ==
    {Join(<<<<"n", ",", "i", "m", "g">>, TwoUrlCell(f, u1, u2)>>, NEWLINE) :
        f \in TwoUrlFirsts, u1 \in TwoUrls, u2 \in TwoUrls}

SheetTexts == GridBlobs \cup ImageBlobs \cup NumberBlobs \cup MultiLineBlobs

\* Response bodies that fill the sampling window: an optional blank line,
\* SampleSize - 1 copies of one line, and at most MaxTail further lines.
MaxTail == 2
PadHeaders == {<<"n">>, <<"k", ",", "n">>}
PadLines == {<<"1", "2">>, <<"a", ",">>, <<"a", ",", "5">>, <<"x">>}
TailLines == {<<>>, <<"7">>, <<"a", "b", "c">>, <<"b", ",", "5">>}
PadBlobs ==
    {Join(<<h>> \o pre \o Rep(pad, SampleSize - 1) \o tail, NEWLINE) :
        h \in PadHeaders, pre \in {<<>>, << <<>> >>}, pad \in PadLines,
        tail \in SeqsUpTo(TailLines, MaxTail)}

----------------------------------------------------------------------------
(* State                                                                   *)

IdleScan == [pc |-> "idle", text |-> <<>>, i |-> 1, current |-> <<>>,
             inQuote |-> FALSE, result |-> <<>>, out |-> <<>>]
IdleInfer == [pc |-> "idle", values |-> <<>>, headerName |-> <<>>, out |-> "none"]
IdleXform == [pc |-> "idle", src |-> [host |-> <<>>, first |-> NoPlace,
              second |-> NoPlace, tail |-> <<>>], url |-> <<>>, out |-> <<>>,
              again |-> <<>>]
IdleSheet == [pc |-> "idle", resp |-> "none", text |-> <<>>, headers |-> <<>>,
              rawRows |-> <<>>, value |-> EmptyDataset]

\* The ways the request of fetchSheetData fails.
Failures == {"network error", "not ok", "body error"}

\* App's state: useState(null), useState(true), useState(null). The data
\* held is null or a Dataset.
NullData == [held |-> FALSE, value |-> EmptyDataset]
Held(d) == [held |-> TRUE, value |-> d]
NoError == <<>>
NoApp == [pc |-> "mounted", data |-> NullData, loading |-> TRUE, error |-> NoError,
          loads |-> 0, inflight |-> 0]

\* ChatAssistant after mount: the greeting is the only message. sends counts
\* the sends accepted so far, pending the calls of chatWithData that have not
\* settled.
Greeting == <<"chatWelcome">>
ModelMsg(text) == [role |-> "model", text |-> text]
UserMsg(text) == [role |-> "user", text |-> text]
NoChat == [messages |-> <<ModelMsg(Greeting)>>, input |-> <<>>, loading |-> FALSE,
           pending |-> 0, sends |-> 0]

\* parseCSVLine is called with text.
CallScan(text) == [IdleScan EXCEPT !.pc = "loop", !.text = text]
\* detectColumnType is called with values and headerName.
CallInfer(values, headerName) ==
    [IdleInfer EXCEPT !.pc = "called", !.values = values, !.headerName = headerName]
\* transformImageUrl is called with url.
CallXform(src, url) == [IdleXform EXCEPT !.pc = "called", !.src = src, !.url = url]
\* fetchSheetData is called; the request will end as resp, with the body text.
CallSheet(resp, text) == [IdleSheet EXCEPT !.pc = "fetching", !.resp = resp, !.text = text]

----------------------------------------------------------------------------
(* Actions                                                                 *)

\* One iteration of parseCSVLine's loop.
ScanChar ==
    /\ scan.pc = "loop"
    /\ scan.i <= Len(scan.text)
    /\ LET s == ScanStep(scan.text, [i |-> scan.i, current |-> scan.current,
                                     inQuote |-> scan.inQuote, result |-> scan.result])
       IN  scan' = [scan EXCEPT !.i = s.i, !.current = s.current,
                                !.inQuote = s.inQuote, !.result = s.result]
    /\ UNCHANGED <<infer, xform, sheet, app, dateImpl, chat>>

\* The loop is over: the last field is pushed and the fields are trimmed.
ScanReturn ==
    /\ scan.pc = "loop"
    /\ scan.i > Len(scan.text)
    /\ scan' = [scan EXCEPT !.pc = "done",
                            !.out = ScanFinish([i |-> scan.i, current |-> scan.current,
                                                inQuote |-> scan.inQuote,
                                                result |-> scan.result])]
    /\ UNCHANGED <<infer, xform, sheet, app, dateImpl, chat>>

DetectColumnType ==
    /\ infer.pc = "called"
    /\ infer' = [infer EXCEPT !.pc = "done",
                              !.out = detectColumnType(infer.values, infer.headerName)]
    /\ UNCHANGED <<scan, xform, sheet, app, dateImpl, chat>>

TransformImageUrl ==
    /\ xform.pc = "called"
    /\ xform' = [xform EXCEPT !.pc = "done", !.out = transformImageUrl(xform.url)]
    /\ UNCHANGED <<scan, infer, sheet, app, dateImpl, chat>>

\* transformImageUrl is called with the string it returned.
TransformAgain ==
    /\ xform.pc = "done"
    /\ xform' = [xform EXCEPT !.pc = "twice", !.again = transformImageUrl(xform.out)]
    /\ UNCHANGED <<scan, infer, sheet, app, dateImpl, chat>>

\* The promise resolves with the Dataset of the locals loc.
Resolved(s, loc) ==
    [s EXCEPT !.pc = "resolved", !.headers = loc.headers, !.rawRows = loc.rawRows,
              !.value = DatasetOf(loc)]

\* The response is ok: the promise resolves with the Dataset of its body.
FetchResolve ==
    /\ sheet.pc = "fetching"
    /\ sheet.resp = "ok"
    /\ sheet' = Resolved(sheet, SheetLocals(SplitLines(sheet.text)))
    /\ UNCHANGED <<scan, infer, xform, app, dateImpl, chat>>

\* fetch rejects, the response is not ok, or reading its body rejects: the
\* error is logged and thrown again, and the promise rejects.
FetchReject ==
    /\ sheet.pc = "fetching"
    /\ sheet.resp \in Failures
    /\ sheet' = [sheet EXCEPT !.pc = "rejected"]
    /\ UNCHANGED <<scan, infer, xform, app, dateImpl, chat>>

\* The message loadData stores when fetchSheetData rejects.
ErrorMessage == <<"Failed to load Google Sheet data. Please ensure the sheet is published to web as CSV or accessible.">>

\* Response bodies of the refreshes of App.
AppTexts == {<<>>, <<"n", "\n", "1", "2">>, <<"n", "\n", "7">>, <<"i", "m", "g", "\n", "x">>}

\* loadData is called at most MaxLoads times.
MaxLoads == 2

\* The Refresh button with no regard for loading.
RefreshEnabled_whileLoading == TRUE

\* The Refresh button takes a click: disabled={loading}.
RefreshEnabled == ~app.loading

\* The Retry button is rendered: {error && (...)}.
RetryShown == app.error # NoError

\* loadData is called, by the effect after mount or by a click on Refresh or
\* on Retry: loading and error are reset and fetchSheetData is awaited.
\* inflight counts the calls of loadData that have not reached finally.
LoadData ==
    /\ \/ app.pc = "mounted"
       \/ app.pc # "mounted" /\ (RefreshEnabled \/ RetryShown)
    /\ app.loads < MaxLoads
    /\ app' = [app EXCEPT !.pc = "awaiting", !.loading = TRUE, !.error = NoError,
                          !.loads = @ + 1, !.inflight = @ + 1]
    /\ \/ \E t \in AppTexts : sheet' = CallSheet("ok", t)
       \/ \E r \in Failures : sheet' = CallSheet(r, <<>>)
    /\ UNCHANGED <<scan, infer, xform, dateImpl, chat>>

\* LoadDataRejected with the held data dropped.
LoadDataRejected_clearsData ==
    /\ app.pc = "awaiting"
    /\ sheet.pc = "rejected"
    /\ app' = [app EXCEPT !.pc = "idle", !.data = NullData, !.error = ErrorMessage,
                          !.loading = FALSE, !.inflight = @ - 1]
    /\ UNCHANGED <<scan, infer, xform, sheet, dateImpl, chat>>

\* The awaited promise rejected: catch stores the message, finally ends the
\* loading.
LoadDataRejected ==
    /\ app.pc = "awaiting"
    /\ sheet.pc = "rejected"
    /\ app' = [app EXCEPT !.pc = "idle", !.error = ErrorMessage, !.loading = FALSE,
                          !.inflight = @ - 1]
    /\ UNCHANGED <<scan, infer, xform, sheet, dateImpl, chat>>

\* The awaited promise resolved: the Dataset replaces the held data, finally
\* ends the loading.
LoadDataFulfilled ==
    /\ app.pc = "awaiting"
    /\ sheet.pc = "resolved"
    /\ app' = [app EXCEPT !.pc = "idle", !.data = Held(sheet.value), !.loading = FALSE,
                          !.inflight = @ - 1]
    /\ UNCHANGED <<scan, infer, xform, sheet, dateImpl, chat>>

\* What the user types, and what chatWithData resolves with.
ChatInputs == {<<>>, <<" ">>, <<"h", "i">>, <<" ", "a", " ">>}
ChatReplies == {<<"r">>, <<"Sorry, I encountered an error analyzing your request.">>}
Apology == <<"Sorry, something went wrong.">>

\* At most MaxSends sends are accepted.
MaxSends == 2

\* onChange of the input field.
SetInput ==
    /\ \E t \in ChatInputs \ {chat.input} : chat' = [chat EXCEPT !.input = t]
    /\ UNCHANGED <<scan, infer, xform, sheet, app, dateImpl>>

\* SendRefused without the test of loading.
SendRefused_blankOnly == Trim(chat.input) = <<>>

\* if (!input.trim() || loading) return
SendRefused == Trim(chat.input) = <<>> \/ chat.loading

\* handleSend is called, by a click on the button or by the Enter key: a
\* refused call changes nothing; an accepted one appends the user message,
\* clears the input, sets loading and awaits chatWithData.
HandleSend ==
    /\ chat.sends < MaxSends
    /\ IF SendRefused THEN chat' = chat
       ELSE chat' = [chat EXCEPT !.messages = Append(@, UserMsg(chat.input)),
                                 !.input = <<>>, !.loading = TRUE,
                                 !.pending = @ + 1, !.sends = @ + 1]
    /\ UNCHANGED <<scan, infer, xform, sheet, app, dateImpl>>

\* chatWithData resolved: the reply is appended, finally ends the loading.
ChatResolve ==
    /\ chat.pending > 0
    /\ \E r \in ChatReplies :
          chat' = [chat EXCEPT !.messages = Append(@, ModelMsg(r)), !.loading = FALSE,
                               !.pending = @ - 1]
    /\ UNCHANGED <<scan, infer, xform, sheet, app, dateImpl>>

\* chatWithData rejected: the apology is appended, finally ends the loading.
ChatReject ==
    /\ chat.pending > 0
    /\ chat' = [chat EXCEPT !.messages = Append(@, ModelMsg(Apology)), !.loading = FALSE,
                            !.pending = @ - 1]
    /\ UNCHANGED <<scan, infer, xform, sheet, app, dateImpl>>

\* A refresh of App unmounts the dashboard and mounts it again: the new
\* ChatAssistant starts from its initial state, and what the old one awaited
\* reaches no state.
Remount ==
    /\ chat' = [NoChat EXCEPT !.sends = chat.sends]
    /\ chat' # chat
    /\ UNCHANGED <<scan, infer, xform, sheet, app, dateImpl>>

----------------------------------------------------------------------------
(* Specifications                                                          *)

DateImpls == {"strict", "lenient"}

\* fetchSheetData on the short response bodies.
Init ==
    /\ scan = IdleScan /\ infer = IdleInfer /\ xform = IdleXform /\ app = NoApp /\ chat = NoChat
    /\ dateImpl \in DateImpls
    /\ \/ \E t \in SheetTexts : sheet = CallSheet("ok", t)
       \/ \E r \in Failures : sheet = CallSheet(r, <<>>)
Next == FetchResolve \/ FetchReject
Spec == Init /\ [][Next]_vars

\* fetchSheetData on the response bodies that fill the sampling window.
InitSample ==
    /\ scan = IdleScan /\ infer = IdleInfer /\ xform = IdleXform /\ app = NoApp /\ chat = NoChat
    /\ dateImpl \in DateImpls
    /\ \E t \in PadBlobs : sheet = CallSheet("ok", t)
NextSample == FetchResolve
SpecSample == InitSample /\ [][NextSample]_vars

\* parseCSVLine, one loop iteration at a time.
InitScan ==
    /\ infer = IdleInfer /\ xform = IdleXform /\ sheet = IdleSheet /\ app = NoApp /\ chat = NoChat
    /\ dateImpl = "strict"
    /\ \E t \in ScanLines : scan = CallScan(t)
NextScan == ScanChar \/ ScanReturn
SpecScan == InitScan /\ [][NextScan]_vars

\* detectColumnType on a header and a sample.
InitInfer ==
    /\ scan = IdleScan /\ xform = IdleXform /\ sheet = IdleSheet /\ app = NoApp /\ chat = NoChat
    /\ dateImpl \in DateImpls
    /\ \E h \in DetectHeaders, v \in DetectSamples : infer = CallInfer(v, h)
NextInfer == DetectColumnType
SpecInfer == InitInfer /\ [][NextInfer]_vars

\* detectColumnType on the samples that reach the link rule and the content
\* rules. No value of the long samples can pass the date check, whatever the
\* Date parser.
InitContent ==
    /\ scan = IdleScan /\ xform = IdleXform /\ sheet = IdleSheet /\ app = NoApp /\ chat = NoChat
    /\ \/ /\ dateImpl = "strict"
          /\ \E h \in ContentHeaders, v \in RatioSamples : infer = CallInfer(v, h)
       \/ /\ dateImpl \in DateImpls
          /\ \E h \in ContentHeaders, v \in NumberSamples : infer = CallInfer(v, h)
NextContent == DetectColumnType
SpecContent == InitContent /\ [][NextContent]_vars

\* transformImageUrl on a URL.
InitXform ==
    /\ scan = IdleScan /\ infer = IdleInfer /\ sheet = IdleSheet /\ app = NoApp /\ chat = NoChat
    /\ dateImpl = "strict"
    /\ \/ \E src \in UrlSources : xform = CallXform(src, UrlOf(src))
       \/ \E u \in UrlOthers : xform = CallXform(IdleXform.src, u)
NextXform == TransformImageUrl
SpecXform == InitXform /\ [][NextXform]_vars

\* ChatAssistant.
InitChat ==
    /\ scan = IdleScan /\ infer = IdleInfer /\ xform = IdleXform /\ sheet = IdleSheet
    /\ app = NoApp /\ chat = NoChat
    /\ dateImpl = "strict"
NextChat == SetInput \/ HandleSend \/ ChatResolve \/ ChatReject \/ Remount
SpecChat == InitChat /\ [][NextChat]_vars

\* transformImageUrl applied to a URL and then to what it returned.
NextTwice == TransformImageUrl \/ TransformAgain
SpecTwice == InitXform /\ [][NextTwice]_vars


\* App: the component is mounted and loadData runs, again and again.
InitApp ==
    /\ scan = IdleScan /\ infer = IdleInfer /\ xform = IdleXform /\ sheet = IdleSheet
    /\ app = NoApp /\ chat = NoChat
    /\ dateImpl \in DateImpls
NextApp == LoadData \/ FetchResolve \/ FetchReject \/ LoadDataFulfilled \/ LoadDataRejected
SpecApp == InitApp /\ [][NextApp]_vars

\* FetchResolve can be taken: it has no other condition, and it changes
\* sheet.pc.
FetchResolveEnabled == sheet.pc = "fetching" /\ sheet.resp = "ok"

\* App when every request settles and every settled promise runs its
\* continuation. The first condition is WF_vars(FetchResolve), written with
\* FetchResolveEnabled for ENABLED <<FetchResolve>>_vars.
SpecAppFair ==
    /\ SpecApp
    /\ ([]<>(~FetchResolveEnabled) \/ []<><<FetchResolve>>_vars)
    /\ WF_vars(FetchReject)
    /\ WF_vars(LoadDataFulfilled) /\ WF_vars(LoadDataRejected)

----------------------------------------------------------------------------
(* Claims                                                                  *)

\* C1: detectColumnType called with the header "saphap uppakon" (equipment
\* condition, in Thai) returns 'string' whatever the sampled values are.
C1_ConditionHeaderIsString ==
    (infer.pc = "done" /\ infer.headerName = h_condition_th) => infer.out = "string"

\* C1 witness: the header with a sample that holds an image URL.
C1_Witness ==
    /\ infer.pc = "done"
    /\ infer.headerName = h_condition_th
    /\ infer.values = <<v_png, v_drive>>
    /\ infer.out = "string"

\* The header contains one of the condition/status words, in any case.
C2_HasConditionWord(h) ==
    LET l == ToLower(h)
    IN  \E w \in {s_condition, s_status, s_th_saphap, s_th_sathana} :
            \E k \in 1..Len(h) : MatchAt(l, w, k)

\* The header matches one of the two image header rules that come first.
C2_HasImageWord(h) ==
    \/ LET l == ToLower(h)
       IN  \E w \in {s_image, s_photo, s_picture, s_img, s_th_roop} :
               \E k \in 1..Len(h) : MatchAt(l, w, k)
    \/ /\ \E k \in 1..Len(h) : MatchAt(h, s_th_phap, k)
       /\ ~\E k \in 1..Len(h) : MatchAt(h, s_th_saphap, k)

\* C2 as stated: a header with a condition/status word is never inferred
\* 'number' or 'image'.
C2_Original ==
    (infer.pc = "done" /\ C2_HasConditionWord(infer.headerName))
        => infer.out \notin {"number", "image"}

\* C2 as amended: a header with a condition/status word is never inferred
\* 'number' or 'date'; it is inferred 'string' unless it also matches one of
\* the image header rules, which come first and make it 'image'.
C2_ConditionHeader ==
    (infer.pc = "done" /\ C2_HasConditionWord(infer.headerName))
        => /\ infer.out \in {"string", "image"}
           /\ infer.out = "image" <=> C2_HasImageWord(infer.headerName)

\* C2 witness: a status header over a sample of numbers.
C2_Witness ==
    /\ infer.pc = "done"
    /\ infer.headerName = <<"S", "t", "a", "t", "u", "s">>
    /\ infer.values = <<<<"1", "2">>, <<"1", "2">>>>
    /\ infer.out = "string"

\* The response body cut after its SampleSize-th line that makes a row.
C3_Truncated(text) ==
    LET lines == SplitLines(text)
        rowsUpTo(k) == Cardinality({j \in 2..k : Trim(lines[j]) # <<>>})
        last == CHOOSE k \in 1..Len(lines) :
                    /\ rowsUpTo(k) <= SampleSize
                    /\ k = Len(lines) \/ rowsUpTo(k + 1) > SampleSize
    IN  Join(SubSeq(lines, 1, last), NEWLINE)

\* C3: the columns of the Dataset are those of the response body cut after
\* its first 20 rows (so two bodies with the same header line and the same
\* first 20 rows get the same columns), and every row, the later ones
\* included, holds a number exactly in the columns typed 'number'.
C3_SchemaStable ==
    sheet.pc = "resolved" =>
        /\ sheet.value.columns = Dataset(C3_Truncated(sheet.text)).columns
        /\ \A k \in 1..Len(sheet.value.rows) : \A c \in 1..Len(sheet.value.columns) :
              LET col == sheet.value.columns[c]
              IN  (sheet.value.rows[k][col.name].t = "number") <=> (col.type = "number")

\* C3 witness: a column inferred 'number' from 20 rows, and a 21st row that
\* holds text.
C3_Witness ==
    /\ sheet.pc = "resolved"
    /\ Len(sheet.rawRows) > SampleSize
    /\ sheet.value.columns[1].type = "number"
    /\ sheet.rawRows[SampleSize + 1][sheet.headers[1]] = <<"a", "b", "c">>

ExampleLine == <<"a", ",", QUOTE, "b", QUOTE, QUOTE, "c", QUOTE, ",", "d">>

\* C4, the example: a,"b""c",d gives the fields a, b"c and d.
C4_Example ==
    (scan.pc = "done" /\ scan.text = ExampleLine)
        => scan.out = <<<<"a">>, <<"b", QUOTE, "c">>, <<"d">>>>

\* C4, one loop iteration at a quote: inside a quoted section a quote followed
\* by a quote adds one quote to the field, skips both and stays in the
\* section; any other quote adds nothing and flips inQuote.
C4_QuoteStep ==
    (scan.pc = "loop" /\ scan.i <= Len(scan.text) /\ scan.text[scan.i] = QUOTE)
        => IF scan.inQuote /\ scan.i < Len(scan.text) /\ scan.text[scan.i + 1] = QUOTE
           THEN /\ scan'.current = Append(scan.current, QUOTE)
                /\ scan'.inQuote
                /\ scan'.i = scan.i + 2
                /\ scan'.result = scan.result
           ELSE /\ scan'.current = scan.current
                /\ scan'.inQuote = ~scan.inQuote
                /\ scan'.i = scan.i + 1
                /\ scan'.result = scan.result

\* C4: quote escaping in the tokenizer.
C4_QuoteEscaping == [](C4_Example) /\ [][C4_QuoteStep]_vars

\* C4 witness: the example line has been tokenized.
C4_Witness ==
    /\ scan.pc = "done"
    /\ scan.text = ExampleLine
    /\ Len(scan.out) = 3
    /\ scan.out[2] = <<"b", QUOTE, "c">>

\* C5: a line without comma, newline and quote gives exactly one field, the
\* line without its leading and trailing white space.
C5_SingleField ==
    (scan.pc = "done" /\ \A k \in 1..Len(scan.text) : scan.text[k] \notin {COMMA, NEWLINE, QUOTE})
        => /\ Len(scan.out) = 1
           /\ \E a \in 0..Len(scan.text) : \E b \in 0..Len(scan.text) :
                 /\ a + Len(scan.out[1]) + b = Len(scan.text)
                 /\ \A k \in 1..a : scan.text[k] \in WhiteSpace
                 /\ \A k \in (Len(scan.text) - b + 1)..Len(scan.text) : scan.text[k] \in WhiteSpace
                 /\ \A k \in 1..Len(scan.out[1]) : scan.out[1][k] = scan.text[a + k]
                 /\ scan.out[1] = <<>> \/
                       (scan.out[1][1] \notin WhiteSpace
                        /\ scan.out[1][Len(scan.out[1])] \notin WhiteSpace)

\* C5 witness: a line with white space at both ends and inside.
C5_Witness ==
    /\ scan.pc = "done"
    /\ scan.text = <<"\t", "a", " ", " ", "b", "\r">>
    /\ scan.out = << <<"a", " ", " ", "b">> >>


\* The cell without its commas, baht signs and dollar signs.
C6_Stripped(raw) == SelectSeq(raw, LAMBDA c : c \notin {COMMA, BAHT, "$"})

\* C6: every cell of a 'number' column holds a number that is not NaN, and
\* holds 0 when the stripped cell does not parse as a number.
C6_UnparseableIsZero ==
    sheet.pc = "resolved" =>
        \A k \in 1..Len(sheet.value.rows) : \A c \in 1..Len(sheet.value.columns) :
            LET col == sheet.value.columns[c]
                cell == sheet.value.rows[k][col.name]
            IN  col.type = "number" =>
                    /\ cell.t = "number"
                    /\ cell.n.k # "NaN"
                    /\ isNaN(parseFloat(C6_Stripped(sheet.rawRows[k][col.name]))) => cell.n = Zero

\* C7: a cell of a 'number' column holds the number parsed from the raw cell
\* without its commas and currency signs, and 0 when nothing is left; the
\* cell 1,234.50 <baht> holds 1234.5, which is 12345 * 10^-1.
C7_NumericNormalization ==
    sheet.pc = "resolved" =>
        \A k \in 1..Len(sheet.value.rows) : \A c \in 1..Len(sheet.value.columns) :
            LET col == sheet.value.columns[c]
                cell == sheet.value.rows[k][col.name]
                raw == sheet.rawRows[k][col.name]
            IN  col.type = "number" =>
                    /\ cell.t = "number"
                    /\ cell.n = IF C6_Stripped(raw) = <<>> THEN Zero
                                ELSE parseFloat(C6_Stripped(raw))
                    /\ raw = v_money =>
                          cell.n = [k |-> "num", neg |-> FALSE, mant |-> 12345, exp |-> 0 - 1]

\* C7 witness: the cell 1,234.50 <baht> in a 'number' column.
C7_Witness ==
    /\ sheet.pc = "resolved"
    /\ Len(sheet.value.rows) = 1
    /\ sheet.value.columns = <<[name |-> <<"n">>, type |-> "number"]>>
    /\ sheet.rawRows[1][<<"n">>] = v_money
    /\ sheet.value.rows[1][<<"n">>].n.mant = 12345

\* The parts of an image cell: what lies between its commas and newlines,
\* trimmed, without the parts that are empty.
C8_Parts(raw) ==
    LET pieces == SplitOn(raw, {COMMA, NEWLINE})
    IN  SelectSeq([j \in 1..Len(pieces) |-> Trim(pieces[j])], LAMBDA q : q # <<>>)

\* The segments of a stored image value: what lies between its commas.
C8_Segments(v) == IF v = <<>> THEN <<>> ELSE SplitOn(v, {COMMA})

\* C8: a cell of an 'image' column holds the transformed parts of the raw
\* cell, in order, joined by single commas: no segment is empty or has white
\* space at an end, and http://a.png, http://b.png gives two URLs.
C8_ImageNormalization ==
    sheet.pc = "resolved" =>
        \A k \in 1..Len(sheet.value.rows) : \A c \in 1..Len(sheet.value.columns) :
            LET col == sheet.value.columns[c]
                cell == sheet.value.rows[k][col.name]
                raw == sheet.rawRows[k][col.name]
                segs == C8_Segments(cell.s)
            IN  col.type = "image" =>
                    /\ cell.t = "string"
                    /\ \A j \in 1..Len(segs) :
                          /\ segs[j] # <<>>
                          /\ segs[j][1] \notin WhiteSpace
                          /\ segs[j][Len(segs[j])] \notin WhiteSpace
                    /\ Len(segs) = Len(C8_Parts(raw))
                    /\ \A j \in 1..Len(segs) : segs[j] = transformImageUrl(C8_Parts(raw)[j])
                    /\ raw = v_png \o <<COMMA, " ">> \o v_png2 =>
                          cell.s = v_png \o <<COMMA>> \o v_png2

\* C8 witness: the cell http://a.png, http://b.png in an 'image' column.
C8_Witness ==
    /\ sheet.pc = "resolved"
    /\ Len(sheet.value.rows) = 1
    /\ sheet.value.columns = <<[name |-> s_img, type |-> "image"]>>
    /\ sheet.rawRows[1][s_img] = v_png \o <<COMMA, " ">> \o v_png2
    /\ sheet.value.rows[1][s_img].s = v_png \o <<COMMA>> \o v_png2

\* The place holds a run of at least 25 id characters after /d/.
C9_IsPath(place) == EndsWith(place.form, s_slash_d) /\ Len(place.id) >= MinIdLen
\* The place holds a run of at least 25 id characters after id=.
C9_IsQuery(place) == EndsWith(place.form, s_id_eq) /\ Len(place.id) >= MinIdLen

\* The identifier the claim names: that of the first /d/ place and, without
\* one, that of the first id= place.
C9_Id(src) ==
    IF C9_IsPath(src.first) THEN src.first.id
    ELSE IF C9_IsPath(src.second) THEN src.second.id
    ELSE IF C9_IsQuery(src.first) THEN src.first.id
    ELSE src.second.id

\* C9: a URL with drive.google.com and a run of at least 25 id characters
\* after /d/ or after id= becomes the thumbnail URL of that run and keeps
\* nothing else; a /d/ place is taken before an id= place.
C9_DriveRewrite ==
    (/\ xform.pc = "done"
     /\ Includes(xform.url, s_drive)
     /\ \E q \in {xform.src.first, xform.src.second} : C9_IsPath(q) \/ C9_IsQuery(q))
        => xform.out = <<"h", "t", "t", "p", "s", ":", "/", "/", "d", "r", "i", "v", "e", ".", "g", "o", "o", "g", "l", "e", ".", "c", "o", "m", "/", "t", "h", "u", "m", "b", "n", "a", "i", "l", "?", "i", "d", "=">> \o C9_Id(xform.src)
                           \o <<"&", "s", "z", "=", "w", "1", "0", "0", "0">>

\* C9 witness: a URL with an id= place before a /d/ place.
C9_Witness ==
    /\ xform.pc = "done"
    /\ Includes(xform.url, s_drive)
    /\ C9_IsQuery(xform.src.first)
    /\ C9_IsPath(xform.src.second)
    /\ xform.src.first.id # xform.src.second.id
    /\ xform.out = s_thumb \o xform.src.second.id \o s_size

\* The body is a header line, and no line after it makes a row.
C10_NoDataRows(text) ==
    /\ Trim(SplitLines(text)[1]) # <<>>
    /\ \A k \in 2..Len(SplitLines(text)) : Trim(SplitLines(text)[k]) = <<>>

\* C10 as stated: a body that is a header line without data rows gives the
\* empty Dataset.
C10_Original ==
    (sheet.pc = "resolved" /\ C10_NoDataRows(sheet.text)) => sheet.value = EmptyDataset

\* C10 as amended: a body without any newline gives the empty Dataset; a
\* header line followed by a newline and no data rows gives no rows, and one
\* column per field of the header line.
C10_ShortInput ==
    (sheet.pc = "resolved" /\ C10_NoDataRows(sheet.text)) =>
        IF \A k \in 1..Len(sheet.text) : sheet.text[k] # NEWLINE
        THEN sheet.value = EmptyDataset
        ELSE /\ sheet.value.rows = <<>>
             /\ Len(sheet.value.columns) = Len(parseCSVLine(SplitLines(sheet.text)[1]))
             /\ Len(sheet.value.columns) >= 1

\* C10 witness: the body is the header line n,img and nothing else.
C10_Witness ==
    /\ sheet.pc = "resolved"
    /\ sheet.text = <<"n", ",", "i", "m", "g">>
    /\ sheet.value = EmptyDataset

\* The text has no newline: split on newline gives fewer than 2 lines.
C11_FewerThanTwoLines(text) == \A k \in 1..Len(text) : text[k] # NEWLINE

\* C11: when the response is ok and its text splits into fewer than 2 lines
\* (the empty text included), fetchSheetData resolves, with the empty
\* Dataset; it does not reject.
C11_DegenerateIsEmpty ==
    (/\ sheet.resp = "ok"
     /\ sheet.pc \in {"resolved", "rejected"}
     /\ C11_FewerThanTwoLines(sheet.text))
        => (sheet.pc = "resolved" /\ sheet.value = EmptyDataset)

\* C11 witness: the empty text resolves with the empty Dataset.
C11_Witness ==
    /\ sheet.pc = "resolved"
    /\ sheet.resp = "ok"
    /\ sheet.text = <<>>
    /\ sheet.value = EmptyDataset

\* The names of the columns of a Dataset.
C12_ColumnNames(d) == {d.columns[i].name : i \in 1..Len(d.columns)}

\* C12: in every returned Dataset every row has exactly the column names as
\* its keys; a key whose field is missing from the line holds '' (0 in a
\* 'number' column).
C12_KeySet ==
    sheet.pc = "resolved" =>
        \A k \in 1..Len(sheet.value.rows) :
            /\ DOMAIN sheet.value.rows[k] = C12_ColumnNames(sheet.value)
            /\ \A i \in 1..Len(sheet.value.columns) :
                  LET col == sheet.value.columns[i]
                      fields == parseCSVLine(SelectSeq(Tail(SplitLines(sheet.text)),
                                    LAMBDA l : Trim(l) # <<>>)[k])
                  IN  (/\ i > Len(fields)
                       /\ \A j \in (i + 1)..Len(sheet.value.columns) :
                             sheet.value.columns[j].name # col.name)
                          => sheet.value.rows[k][col.name] =
                                 IF col.type = "number" THEN Num(Zero) ELSE Str(<<>>)

\* The lines after the header line that are not blank after trimming.
C13_DataLines(text) ==
    SelectSeq(Tail(SplitLines(text)),
              LAMBDA l : \E j \in 1..Len(l) : l[j] \notin WhiteSpace)

\* C13: the returned rows are, in order, the rows made of the data lines that
\* are not blank: a blank line makes no row, and no other line is dropped.
C13_RowPreservation ==
    sheet.pc = "resolved" =>
        LET data == C13_DataLines(sheet.text)
        IN  /\ Len(sheet.value.rows) = Len(data)
            /\ \A k \in 1..Len(data) :
                  sheet.value.rows[k] =
                      NormalizeRow(RawRow(sheet.headers, data[k]), sheet.value.columns)

\* C13 witness: a blank line between the header and a data line whose second
\* cell does not parse; one row is returned.
C13_Witness ==
    /\ sheet.pc = "resolved"
    /\ sheet.text = Join(<<<<"n">>, <<" ">>, <<"a", "b", "c", ",", "x">>>>, NEWLINE)
    /\ Len(sheet.value.rows) = 1
    /\ sheet.value.rows[1][<<"n">>] = Str(<<"a", "b", "c">>)

\* fetchSheetData rejects whenever its request failed.
C14_FailureRejects ==
    (sheet.resp \in Failures /\ sheet.pc \in {"resolved", "rejected"})
        => sheet.pc = "rejected"

\* A step of App after a rejection keeps the held data, stores the message
\* and ends the loading; the held data changes only to the whole Dataset of a
\* request that succeeded.
C14_Step ==
    /\ (app.pc = "awaiting" /\ sheet.pc = "rejected" /\ app' # app)
          => /\ app'.data = app.data
             /\ app'.error = ErrorMessage
             /\ app'.loading = FALSE
    /\ app'.data # app.data
          => /\ sheet.pc = "resolved" /\ sheet.resp = "ok"
             /\ app'.data = Held(Dataset(sheet.text))

\* C14: a failed retrieval rejects fetchSheetData, and loadData then sets the
\* error and keeps the data held before; only a successful refresh replaces
\* the held data, by the whole new Dataset.
C14_AllOrNothing == [](C14_FailureRejects) /\ [][C14_Step]_vars

\* C14 witness: a refresh failed after one that succeeded, and the Dataset of
\* the first is still held.
C14_Witness ==
    /\ app.pc = "idle"
    /\ sheet.pc = "rejected"
    /\ app.error = ErrorMessage
    /\ app.data = Held(Dataset(<<"n", "\n", "1", "2">>))

\* s holds a run of at least 25 word-or-hyphen characters.
C15_HasLongRun(s) ==
    \E i \in 1..(Len(s) - 24) : \A j \in i..(i + 24) : IsIdChar(s[j])

\* s without the white space at its two ends.
C15_Trimmed(s) ==
    LET inner == {k \in 1..Len(s) : s[k] \notin WhiteSpace}
    IN  IF inner = {} THEN <<>>
        ELSE SubSeq(s, CHOOSE k \in inner : \A m \in inner : k <= m,
                       CHOOSE k \in inner : \A m \in inner : k >= m)

\* C15: transformImageUrl returns a string for every string: '' for an empty
\* or white-space input, and the input trimmed and otherwise unchanged when
\* it has no drive.google.com or no run of 25 word-or-hyphen characters.
C15_Total ==
    xform.pc = "done" =>
        /\ xform.out \in Seq({xform.out[k] : k \in DOMAIN xform.out})
        /\ C15_Trimmed(xform.url) = <<>> => xform.out = <<>>
        /\ (~Includes(xform.url, s_drive) \/ ~C15_HasLongRun(xform.url))
              => xform.out = C15_Trimmed(xform.url)

\* C15 witness: a Drive URL with white space around it and an identifier of
\* 24 characters comes back trimmed.
C15_Witness ==
    /\ xform.pc = "done"
    /\ Includes(xform.url, s_drive)
    /\ xform.url[1] = " "
    /\ EndsWith(xform.src.first.form, s_slash_d)
    /\ Len(xform.src.first.id) = 24
    /\ ~C15_HasLongRun(xform.url)
    /\ xform.out = C15_Trimmed(xform.url)
    /\ xform.out # xform.url

\* The header holds one of the words image, photo, picture, img, in any case.
C16_ImageKeyword(h) ==
    LET l == ToLower(h)
    IN  \E w \in {s_image, s_photo, s_picture, s_img} :
            \E k \in 1..Len(h) : MatchAt(l, w, k)

\* The header holds url or link, in any case.
C16_LinkWord(h) ==
    LET l == ToLower(h)
    IN  \E w \in {s_url, s_link} : \E k \in 1..Len(h) : MatchAt(l, w, k)

\* C16: the first rule that matches decides. A header with an image keyword
\* is 'image' even with a condition or status word in it; a header that
\* reaches the condition/status rule is 'string' even with url or link in it
\* and http values in the sample.
C16_RuleOrder ==
    infer.pc = "done" =>
        /\ C16_ImageKeyword(infer.headerName) => infer.out = "image"
        /\ (/\ ~C2_HasImageWord(infer.headerName)
            /\ C2_HasConditionWord(infer.headerName)
            /\ C16_LinkWord(infer.headerName))
              => infer.out = "string"

\* C16 witness: the header Statusurl over a sample of http values is 'string'.
C16_Witness ==
    /\ infer.pc = "done"
    /\ infer.headerName = <<"S", "t", "a", "t", "u", "s", "u", "r", "l">>
    /\ infer.values = <<v_png, v_drive>>
    /\ infer.out = "string"

\* The value holds http, www or drive.google.com.
C17_HasUrlText(v) ==
    \E w \in {s_http, s_www, s_drive} : \E k \in 1..Len(v) : MatchAt(v, w, k)

\* The header matches none of the image and condition/status header rules.
C17_NoEarlierRule(h) == ~C2_HasImageWord(h) /\ ~C2_HasConditionWord(h)

\* C17: under a header with url or link that no earlier rule matched, one
\* sampled value with http, www or drive.google.com makes the column
\* 'image', whatever the share of image values; without such a value the
\* column is what the content rules make of the sample.
C17_LinkHeader ==
    (/\ infer.pc = "done"
     /\ C16_LinkWord(infer.headerName)
     /\ C17_NoEarlierRule(infer.headerName))
        => IF \E k \in 1..Len(infer.values) : C17_HasUrlText(infer.values[k])
           THEN infer.out = "image"
           ELSE infer.out = detectColumnType(infer.values, <<>>)

\* C17 witness: under the header Link one value in six holds a URL, no value
\* is an image, and the column is 'image'.
C17_Witness ==
    /\ infer.pc = "done"
    /\ infer.headerName = <<"L", "i", "n", "k">>
    /\ infer.values = <<s_drive>> \o Rep(<<"1", "2">>, 5)
    /\ detectColumnType(infer.values, <<>>) = "string"
    /\ infer.out = "image"

\* The value starts with http or www and ends in an image extension or holds
\* an image host.
C19_ImageLike(v) ==
    LET t == C15_Trimmed(v)
    IN  /\ \E w \in {s_http, s_www} : MatchAt(t, w, 1)
        /\ \/ \E x \in ImageExtensions : MatchAt(ToLower(t), x, Len(t) - Len(x) + 1)
           \/ \E d \in ImageHosts : \E k \in 1..Len(t) : MatchAt(t, d, k)

\* The places of the sample that are not empty, and those that are images.
C19_NonEmpty(values) == {k \in 1..Len(values) : values[k] # <<>>}
C19_Images(values) == {k \in C19_NonEmpty(values) : C19_ImageLike(values[k])}

\* No header rule decides, and the sample has a value that is not empty.
C19_Reached(h, values) ==
    /\ C17_NoEarlierRule(h)
    /\ ~(C16_LinkWord(h) /\ \E k \in 1..Len(values) : C17_HasUrlText(values[k]))
    /\ C19_NonEmpty(values) # {}

\* What the content image rule says of a sample.
C19_ImageByContent(values) ==
    LET imageCount == Cardinality(C19_Images(values))
    IN  \/ /\ \E k \in C19_NonEmpty(values) :
                 \E j \in 1..Len(values[k]) : MatchAt(values[k], s_drive, j)
           /\ imageCount > 0
        \/ /\ imageCount > 0
           /\ 5 * imageCount >= Cardinality(C19_NonEmpty(values))

\* C19: a column that reaches the content image rule is 'image' exactly when
\* a value holds drive.google.com and there is an image value, or the image
\* values are at least 0.2 of the values that are not empty.
C19_ContentImage ==
    (infer.pc = "done" /\ C19_Reached(infer.headerName, infer.values))
        => (infer.out = "image" <=> C19_ImageByContent(infer.values))

\* C19 witness: one image among five values that are not empty and one that
\* is: the share is 0.2 of the five, and the column is 'image'.
C19_Witness ==
    /\ infer.pc = "done"
    /\ infer.headerName = <<>>
    /\ infer.values = <<v_png, <<>>>> \o Rep(<<"1", "2">>, 4)
    /\ infer.out = "image"

\* The value, without commas, baht and dollar signs and trimmed, is a finite
\* number as a whole.
C20_IsNumber(v) ==
    LET c == C15_Trimmed(SelectSeq(v, LAMBDA ch : ch \notin {COMMA, BAHT, "$"}))
    IN  ~isNaN(parseFloat(c)) /\ isFiniteNumber(c)

\* C20: a column that reaches the number rule is 'number' exactly when every
\* sampled value that is not empty is a finite number once cleaned; empty
\* values do not count, and a sample that is numbers and dates at once is
\* 'number'.
C20_NumberInference ==
    (/\ infer.pc = "done"
     /\ C19_Reached(infer.headerName, infer.values)
     /\ ~C19_ImageByContent(infer.values))
        => /\ infer.out = "number" <=>
                  \A k \in C19_NonEmpty(infer.values) : C20_IsNumber(infer.values[k])
           /\ infer.values = <<v_money, <<>>>> => infer.out = "number"
           /\ infer.values = <<<<"1", "2">>, <<"1", "2", "a", "b", "c">>>> => infer.out = "string"

\* C20 witness: the value -12345, which the lenient Date parser takes for a
\* date, is inferred 'number'.
C20_Witness ==
    /\ infer.pc = "done"
    /\ infer.headerName = <<>>
    /\ dateImpl = "lenient"
    /\ infer.values = <<<<"-", "1", "2", "3", "4", "5">>, <<>>>>
    /\ LooksLikeDate(infer.values[1])
    /\ infer.out = "number"

\* C18: a column whose header matches no header rule and whose sampled cells
\* are all blank is 'string', and every cell of it, the cells after the
\* sample included, is stored as the raw string.
C18_BlankSample ==
    sheet.pc = "resolved" =>
        \A c \in 1..Len(sheet.value.columns) :
            LET col == sheet.value.columns[c]
            IN  (/\ C17_NoEarlierRule(col.name)
                 /\ \A k \in 1..Len(sheet.rawRows) :
                       k <= 20 => sheet.rawRows[k][col.name] = <<>>)
                    => /\ col.type = "string"
                       /\ \A k \in 1..Len(sheet.rawRows) :
                             sheet.value.rows[k][col.name] = Str(sheet.rawRows[k][col.name])

\* C18 witness: column n is blank in the first 20 rows and holds 5 in row
\* 21, which is stored as the string 5.
C18_Witness ==
    /\ sheet.pc = "resolved"
    /\ Len(sheet.rawRows) = 21
    /\ Len(sheet.value.columns) = 2
    /\ sheet.value.columns[2] = [name |-> <<"n">>, type |-> "string"]
    /\ \A k \in 1..20 : sheet.rawRows[k][<<"n">>] = <<>>
    /\ sheet.value.rows[21][<<"n">>] = Str(<<"5">>)

\* The commas of a line that lie outside its quoted sections: those with an
\* even number of double quotes before them.
C21_OutsideCommas(text) ==
    {k \in 1..Len(text) :
        /\ text[k] = COMMA
        /\ Cardinality({j \in 1..(k - 1) : text[j] = QUOTE}) % 2 = 0}

\* The places of the commas held by the fields.
C21_CommasIn(fields, n) ==
    {<<j, k>> \in (1..Len(fields)) \X (1..n) :
        k <= Len(fields[j]) /\ fields[j][k] = COMMA}

\* The characters of s that are not white space, in order.
C21_Dense(s) == SelectSeq(s, LAMBDA ch : ch \notin WhiteSpace)

\* C21: parseCSVLine returns one field more than the line has commas outside
\* quoted sections, the commas inside quoted sections stay in the fields, the
\* fields come in the order of the line, and the empty line gives the single
\* field ''.
C21_FieldSplitting ==
    scan.pc = "done" =>
        /\ Len(scan.out) = Cardinality(C21_OutsideCommas(scan.text)) + 1
        /\ Cardinality(C21_CommasIn(scan.out, Len(scan.text))) =
               Cardinality({k \in 1..Len(scan.text) : scan.text[k] = COMMA})
                   - Cardinality(C21_OutsideCommas(scan.text))
        /\ (\A k \in 1..Len(scan.text) : scan.text[k] # QUOTE)
              => C21_Dense(Join(scan.out, COMMA)) = C21_Dense(scan.text)
        /\ scan.text = <<>> => scan.out = << <<>> >>

\* C21 witness: the line "a,b",c gives the two fields a,b and c.
C21_Witness ==
    /\ scan.pc = "done"
    /\ scan.text = <<QUOTE, "a", ",", "b", QUOTE, ",", "c">>
    /\ scan.out = << <<"a", ",", "b">>, <<"c">> >>

\* A line with an unbalanced double quote, read here for the lines in which no
\* two quotes are adjacent: the number of quotes is odd, and the last of them
\* is the unmatched one.
C22_Unbalanced(l) ==
    LET quotes == {k \in 1..Len(l) : l[k] = QUOTE}
    IN  /\ Cardinality(quotes) % 2 = 1
        /\ \A k \in quotes : k + 1 \notin quotes

\* What the last field of an unbalanced line holds: the characters after the
\* last comma outside quotes, the quotes themselves left out, trimmed.
C22_LastField(l) ==
    LET oc == C21_OutsideCommas(l)
        start == IF oc = {} THEN 1
                 ELSE (CHOOSE k \in oc : \A j \in oc : j <= k) + 1
    IN  Trim(SelectSeq(SubSeq(l, start, Len(l)), LAMBDA ch : ch # QUOTE))

\* The header at index i is the one row[header] keeps for its name.
C22_Kept(headers, i) ==
    /\ headers[i] # ProtoKey
    /\ \A j \in (i + 1)..Len(headers) : headers[j] # headers[i]

\* C22: a data line with an unbalanced quote still makes a row; everything
\* after the unmatched quote, commas included, is in the line's last field,
\* and the columns after that field are '' in the row built from the line
\* (which normalization leaves '' or, in a 'number' column, makes 0).
C22_LenientQuoting ==
    (sheet.pc = "resolved" /\ Len(SplitLines(sheet.text)) >= 2) =>
        LET data == C13_DataLines(sheet.text)
        IN  /\ Len(sheet.rawRows) = Len(data)
            /\ Len(sheet.value.rows) = Len(data)
            /\ \A k \in 1..Len(data) : C22_Unbalanced(data[k]) =>
                  LET f == Cardinality(C21_OutsideCommas(data[k])) + 1
                  IN  \A i \in 1..Len(sheet.headers) : C22_Kept(sheet.headers, i) =>
                         /\ i = f => sheet.rawRows[k][sheet.headers[i]] = C22_LastField(data[k])
                         /\ i > f =>
                               /\ sheet.rawRows[k][sheet.headers[i]] = <<>>
                               /\ sheet.value.rows[k][sheet.headers[i]] \in {Str(<<>>), Num(Zero)}

\* C22 witness: under the header n,img the line "5,c makes the row whose n is
\* 5,c and whose img is ''.
C22_Witness ==
    /\ sheet.pc = "resolved"
    /\ sheet.text = Join(<<<<"n", ",", "i", "m", "g">>, <<QUOTE, "5", ",", "c">>>>, NEWLINE)
    /\ Len(sheet.rawRows) = 1
    /\ sheet.rawRows[1][<<"n">>] = <<"5", ",", "c">>
    /\ sheet.rawRows[1][<<"i", "m", "g">>] = <<>>
    /\ sheet.value.rows[1][<<"i", "m", "g">>] = Str(<<>>)

\* What the claim stores for a field: a value wrapped in a pair of quotes
\* loses that pair, every other value is kept.
C23_Stored(val) ==
    IF Len(val) >= 2 /\ val[1] = QUOTE /\ val[Len(val)] = QUOTE
    THEN SubSeq(val, 2, Len(val) - 1)
    ELSE val

\* The cells of the rows built from the data lines are C23_Stored of their
\* fields, but for the fields in except.
C23_StoredBut(except) ==
    (sheet.pc = "resolved" /\ Len(SplitLines(sheet.text)) >= 2) =>
        LET data == C13_DataLines(sheet.text)
        IN  \A k \in 1..Len(sheet.rawRows) :
               LET values == parseCSVLine(data[k])
               IN  \A i \in 1..Len(sheet.headers) :
                      (C22_Kept(sheet.headers, i) /\ i <= Len(values) /\ values[i] \notin except)
                          => sheet.rawRows[k][sheet.headers[i]] = C23_Stored(values[i])

\* C23: a cell wrapped in a pair of double quotes is stored without that
\* pair, and every other cell, the one-character cell " included, is stored
\* unchanged.
C23_QuoteStripping == C23_StoredBut({})

\* C24: a data row whose img cell is one quoted field holding two URLs with a
\* newline between them gives one row: its img is the two transformed URLs
\* joined by a comma, and its n keeps its own value.
C24_QuotedNewline ==
    sheet.pc = "resolved" =>
        \A f \in TwoUrlFirsts, u1 \in TwoUrls, u2 \in TwoUrls :
            sheet.text = Join(<<<<"n", ",", "i", "m", "g">>, TwoUrlCell(f, u1, u2)>>, NEWLINE) =>
                /\ Len(sheet.value.rows) = 1
                /\ sheet.value.rows[1][<<"i", "m", "g">>] =
                       Str(Join(<<transformImageUrl(u1), transformImageUrl(u2)>>, COMMA))
                /\ sheet.value.rows[1][<<"n">>] \in {Str(f), Num(parseFloat(f))}

\* s holds /d/ or id= followed by at least 25 id characters.
C25_Strict(s) ==
    \E k \in 1..Len(s) :
        /\ \/ (s[k] = "/" /\ k + 2 <= Len(s) /\ s[k + 1] = "d" /\ s[k + 2] = "/")
           \/ (s[k] = "i" /\ k + 2 <= Len(s) /\ s[k + 1] = "d" /\ s[k + 2] = "=")
        /\ k + 2 + MinIdLen <= Len(s)
        /\ \A j \in (k + 3)..(k + 2 + MinIdLen) : IsIdChar(s[j])

\* The first run of at least 25 id characters of s, taken whole.
C25_FirstRun(s) ==
    LET starts == {i \in 1..(Len(s) - MinIdLen + 1) :
                      \A j \in i..(i + MinIdLen - 1) : IsIdChar(s[j])}
        i0 == CHOOSE i \in starts : \A m \in starts : i <= m
        ends == {e \in (i0 + MinIdLen - 1)..Len(s) : \A j \in i0..e : IsIdChar(s[j])}
    IN  SubSeq(s, i0, CHOOSE e \in ends : \A m \in ends : e >= m)

\* C25: a URL with drive.google.com that has neither /d/ nor id= before 25
\* id characters becomes the thumbnail URL of its first run of at least 25 id
\* characters; a URL without drive.google.com is returned trimmed, whatever
\* runs it has.
C25_LooseFallback ==
    xform.pc = "done" =>
        /\ (Includes(xform.url, s_drive) /\ ~C25_Strict(xform.url) /\ C15_HasLongRun(xform.url))
              => xform.out = <<"h", "t", "t", "p", "s", ":", "/", "/", "d", "r", "i", "v", "e", ".", "g", "o", "o", "g", "l", "e", ".", "c", "o", "m", "/", "t", "h", "u", "m", "b", "n", "a", "i", "l", "?", "i", "d", "=">>
                                 \o C25_FirstRun(xform.url) \o <<"&", "s", "z", "=", "w", "1", "0", "0", "0">>
        /\ ~Includes(xform.url, s_drive) => xform.out = C15_Trimmed(xform.url)

\* C25 witness: a Drive folder URL whose first place is too short and whose
\* second place is a run of at least 25 id characters after /folders/.
C25_Witness ==
    /\ xform.pc = "done"
    /\ Includes(xform.url, s_drive)
    /\ ~C25_Strict(xform.url)
    /\ Len(xform.src.first.id) = MinIdLen - 1
    /\ xform.src.second.form = <<"/", "f", "o", "l", "d", "e", "r", "s", "/">>
    /\ Len(xform.src.second.id) >= MinIdLen
    /\ xform.out = s_thumb \o xform.src.second.id \o s_size

\* C25 witness of the other half: a URL without drive.google.com that holds a
\* run of at least 25 id characters comes back as it is.
C25_WitnessOther ==
    /\ xform.pc = "done"
    /\ ~Includes(xform.url, s_drive)
    /\ C15_HasLongRun(xform.url)
    /\ xform.out = C15_Trimmed(xform.url)

\* Dataset.columns has one descriptor per field of the header line, in the
\* order of the header line.
C26_OnePerField ==
    (sheet.pc = "resolved" /\ Len(SplitLines(sheet.text)) >= 2) =>
        LET fields == parseCSVLine(SplitLines(sheet.text)[1])
        IN  /\ Len(sheet.value.columns) = Len(fields)
            /\ \A i \in 1..Len(fields) :
                  sheet.value.columns[i].name = StripEdgeQuotes(fields[i])

\* C26: Dataset.columns has one descriptor per field of the header line, in
\* header order, and no two descriptors have the same name.
C26_ColumnsMirrorHeader ==
    /\ C26_OnePerField
    /\ sheet.pc = "resolved" =>
          \A i, j \in 1..Len(sheet.value.columns) :
              i # j => sheet.value.columns[i].name # sheet.value.columns[j].name

\* C27: transformImageUrl applied to what it returned returns it again.
C27_Idempotent ==
    xform.pc = "twice" => xform.again = xform.out

\* C27 witness: a thumbnail URL made by the loose rewrite is mapped to itself.
C27_Witness ==
    /\ xform.pc = "twice"
    /\ Includes(xform.url, s_drive)
    /\ ~C25_Strict(xform.url)
    /\ xform.out # C15_Trimmed(xform.url)
    /\ StartsWith(xform.out, s_thumb)
    /\ xform.again = xform.out

\* C27 witness of the strict rewrite: a thumbnail URL made from a /d/ place is
\* mapped to itself.
C27_WitnessStrict ==
    /\ xform.pc = "twice"
    /\ C9_IsPath(xform.src.first)
    /\ xform.out = s_thumb \o xform.src.first.id \o s_size
    /\ xform.again = xform.out

\* C28: in a column inferred 'number', each of the first 20 rows holds a
\* finite number where its cell is not empty, and 0 where its cell is empty.
C28_SampleAgreement ==
    sheet.pc = "resolved" =>
        \A k \in 1..Len(sheet.value.rows) : \A c \in 1..Len(sheet.value.columns) :
            LET col == sheet.value.columns[c]
                cell == sheet.value.rows[k][col.name]
                raw == sheet.rawRows[k][col.name]
            IN  (col.type = "number" /\ k <= SampleSize) =>
                    /\ cell.t = "number"
                    /\ raw # <<>> => cell.n.k \notin {"NaN", "Infinity"}
                    /\ raw = <<>> => cell = Num(Zero)

\* C28 witness: 21 rows under the header k,n; n is 5 in the first 19 rows and
\* empty in the 20th, and the 20th row holds 0.
C28_Witness ==
    /\ sheet.pc = "resolved"
    /\ Len(sheet.value.rows) > SampleSize
    /\ Len(sheet.value.columns) = 2
    /\ sheet.value.columns[2] = [name |-> <<"n">>, type |-> "number"]
    /\ sheet.rawRows[1][<<"n">>] = <<"5">>
    /\ sheet.value.rows[1][<<"n">>].n.k = "num"
    /\ sheet.rawRows[SampleSize][<<"n">>] = <<>>
    /\ sheet.value.rows[SampleSize][<<"n">>] = Num(Zero)

\* While a loadData is in flight there is one, loading is set and no error is
\* shown; without one, loading is set only before the effect after mount.
C29_OneInFlight ==
    /\ app.inflight \in {0, 1}
    /\ app.inflight = 1 => (app.loading /\ app.error = NoError)
    /\ (app.inflight = 0 /\ app.pc # "mounted") => ~app.loading

\* C29: with Refresh disabled while loading and Retry shown only while an
\* error is set, at most one loadData is in flight at any time, and every
\* loadData that started ends, with loading false, whether its request
\* succeeds or fails.
C29_LoadStateMachine ==
    /\ [](C29_OneInFlight)
    /\ (app.inflight > 0) ~> (app.inflight = 0 /\ ~app.loading)

\* C29 witness: a second loadData, started after the first one failed, has
\* ended with success.
C29_Witness ==
    /\ app.loads = 2
    /\ app.inflight = 0
    /\ ~app.loading
    /\ app.error = NoError
    /\ app.data.held
    /\ sheet.pc = "resolved"
    /\ sheet.text = <<"n", "\n", "7">>

\* The messages start with the greeting of the model and alternate between
\* model and user.
C30_Alternates ==
    /\ chat.messages[1] = ModelMsg(Greeting)
    /\ \A i \in 1..Len(chat.messages) :
          chat.messages[i].role = IF i % 2 = 1 THEN "model" ELSE "user"

\* With loading false the messages alternate and end with a message of the
\* model; with loading true they alternate and end with the user message of
\* the one send that is awaited.
C30_Shape ==
    /\ C30_Alternates
    /\ ~chat.loading => (chat.pending = 0 /\ chat.messages[Len(chat.messages)].role = "model")
    /\ chat.loading => (chat.pending = 1 /\ chat.messages[Len(chat.messages)].role = "user")

\* A step that changes the messages is an accepted send, from a state with
\* loading false and an input that is not blank, which appends the user
\* message and sets loading; or the end of a send, which appends one message
\* of the model and ends the loading; or a new mount.
C30_Step ==
    chat'.messages # chat.messages =>
        \/ /\ ~chat.loading /\ C15_Trimmed(chat.input) # <<>>
           /\ chat'.messages = Append(chat.messages, [role |-> "user", text |-> chat.input])
           /\ chat'.loading
        \/ /\ chat.loading /\ ~chat'.loading
           /\ Len(chat'.messages) = Len(chat.messages) + 1
           /\ SubSeq(chat'.messages, 1, Len(chat.messages)) = chat.messages
           /\ chat'.messages[Len(chat'.messages)].role = "model"
        \/ chat'.messages = <<ModelMsg(Greeting)>> /\ ~chat'.loading

\* C30: handleSend changes nothing while loading is true or the input is
\* blank; an accepted send appends one user message and then, before loading
\* is false again, one model message; so with loading false the messages
\* start with the greeting, alternate between model and user, and end with a
\* model message.
C30_SendProtocol == [](C30_Shape) /\ [][C30_Step]_vars

\* C30 witness: two sends were accepted; the first was answered, the second
\* ended with the apology.
C30_Witness ==
    /\ ~chat.loading
    /\ Len(chat.messages) = 5
    /\ chat.messages[2] = UserMsg(<<"h", "i">>)
    /\ chat.messages[3].role = "model"
    /\ chat.messages[5] = ModelMsg(Apology)


====
